---------------------------- MODULE Spec2Model ----------------------------
(***************************************************************************)
(* Flight filtering and sorting engine of the travel app                   *)
(* (travel_app.py: filter_flights, display_flights; providers/base.py:     *)
(* FlightSegment, Flight).                                                 *)
(*                                                                         *)
(* Modelling conventions                                                   *)
(*   - an Optional[T] argument is a sequence of length <= 1: << >> is      *)
(*     Python's None and <<v>> is the value v;                             *)
(*   - a datetime is a record [date, time, aware]; date is a day number,   *)
(*     time a time of day, aware tells whether tzinfo is set;              *)
(*   - price_total is counted in its smallest unit.                        *)
(***************************************************************************)
EXTENDS Integers, Sequences, FiniteSets, TLC

\* ------------------------------------------------------------------ bounds
\* longest list of flights a provider returns
MaxFlights == 3
\* ------------------------------------------------------- Optional values
None == << >>

Some(v) == <<v>>

IsNone(x) == x = << >>

Val(x) == x[1]

\* -------------------------------------------------------------- datetime
\* datetime.min: year 1, midnight, no tzinfo
datetime_min == [date |-> 0, time |-> 0, aware |-> FALSE]

\* str.upper() on the airline codes of the model
Upper(code) ==
    CASE code = "qr" -> "QR"
      [] code = "ek" -> "EK"
      [] OTHER -> code

\* ------------------------------------------------------------ data model
\* FlightSegment.__post_init__: a naive timestamp gets the Oslo timezone
FlightSegment(dep_time_local, duration_minutes, airline_code) ==
    [dep_time_local   |-> IF dep_time_local.aware
                          THEN dep_time_local
                          ELSE [dep_time_local EXCEPT !.aware = TRUE],
     duration_minutes |-> duration_minutes,
     airline_code     |-> airline_code]

RECURSIVE SetToSeq(_)
\* list(set(...)): the distinct elements, one of the possible orders
SetToSeq(S) ==
    IF S = {} THEN << >>
    ELSE LET x == CHOOSE y \in S : TRUE IN <<x>> \o SetToSeq(S \ {x})

\* slip: the codes of the segments are listed one per segment
Flight_CodePerSegment(price_total, airline_codes, itinerary) ==
    [price_total   |-> price_total,
     airline_codes |-> IF airline_codes = << >> /\ itinerary # << >>
                       THEN [i \in 1..Len(itinerary) |-> itinerary[i].airline_code]
                       ELSE airline_codes,
     itinerary     |-> itinerary]

\* Flight.__post_init__: airline codes derived from the segments if absent
Flight(price_total, airline_codes, itinerary) ==
    [price_total   |-> price_total,
     airline_codes |-> IF airline_codes = << >> /\ itinerary # << >>
                       THEN SetToSeq({itinerary[i].airline_code :
                                         i \in 1..Len(itinerary)})
                       ELSE airline_codes,
     itinerary     |-> itinerary]

Naive(d, t) == [date |-> d, time |-> t, aware |-> FALSE]

Aware(d, t) == [date |-> d, time |-> t, aware |-> TRUE]

\* the flights a provider can construct
FlightPool ==
    { Flight(1, <<"QR">>, <<FlightSegment(Aware(1, 1), 2, "QR")>>),
      Flight(2, <<"QR", "EK">>,
             <<FlightSegment(Aware(1, 2), 1, "QR"),
               FlightSegment(Aware(2, 0), 1, "EK")>>),
      Flight(1, << >>, <<FlightSegment(Naive(2, 0), 3, "EK")>>),
      Flight(0, <<"BA">>, << >>) }

RECURSIVE SeqsUpTo(_, _)
\* the sequences over S of length at most n
SeqsUpTo(S, n) ==
    IF n = 0 THEN { << >> }
    ELSE LET shorter == SeqsUpTo(S, n - 1)
         IN  shorter \cup { Append(s, x) : s \in shorter, x \in S }

\* --------------------------------------------------------------- inputs
AirlineInputs ==
    { None, Some(<< >>), Some(<<"EK">>), Some(<<"ek", "BA">>),
      Some(<<"BA", "EK", "BA">>) }

PriceInputs == { None, Some(0), Some(1) }

TimeWindowInputs ==
    { None, Some(<<0, 1>>), Some(<<2, 0>>) }

DateInputs ==
    { None, Some(<<1, None>>), Some(<<1, Some(2)>>), Some(<<2, Some(2)>>),
      Some(<<2, Some(1)>>) }

SortInputs == { "price", "duration", "departure", "name" }

\* ---------------------------------------------------------- filter_flights
\* the elements of a list
Elements(fs) == { fs[i] : i \in 1..Len(fs) }

RECURSIVE Filter(_, _)
\* the list comprehension [f for f in fs if keep[f]]
Filter(fs, keep) ==
    IF fs = << >> THEN << >>
    ELSE IF keep[Head(fs)] THEN <<Head(fs)>> \o Filter(Tail(fs), keep)
         ELSE Filter(Tail(fs), keep)

\* slip: all(...) in place of any(...), a subset test
AnyCodeIn_All(f, airline_set) ==
    \A i \in 1..Len(f.airline_codes) : f.airline_codes[i] \in airline_set

\* any(code in airline_set for code in f.airline_codes)
AnyCodeIn(f, airline_set) ==
    \E i \in 1..Len(f.airline_codes) : f.airline_codes[i] \in airline_set

\* the airline criterion: "if airlines:" is false for None and for []
FilterByAirlines(filtered, airlines) ==
    IF ~IsNone(airlines) /\ Val(airlines) # << >>
    THEN LET airline_set == { Upper(Val(airlines)[i]) :
                                 i \in 1..Len(Val(airlines)) }
         IN  Filter(filtered,
                    [f \in Elements(filtered) |-> AnyCodeIn(f, airline_set)])
    ELSE filtered

\* slip: "max_price or 0", None compared as the price 0
FilterByMaxPrice_NoneIsZero(filtered, max_price) ==
    Filter(filtered,
           [f \in Elements(filtered) |->
               f.price_total <= (IF IsNone(max_price) THEN 0 ELSE Val(max_price))])

\* slip: "<" in place of "<="
FilterByMaxPrice_Strict(filtered, max_price) ==
    IF ~IsNone(max_price)
    THEN Filter(filtered,
                [f \in Elements(filtered) |-> f.price_total < Val(max_price)])
    ELSE filtered

\* slip: "if max_price:" in place of "if max_price is not None:"
FilterByMaxPrice_Truthy(filtered, max_price) ==
    IF ~IsNone(max_price) /\ Val(max_price) # 0
    THEN Filter(filtered,
                [f \in Elements(filtered) |-> f.price_total <= Val(max_price)])
    ELSE filtered

\* the price criterion: "if max_price is not None:"
FilterByMaxPrice(filtered, max_price) ==
    IF ~IsNone(max_price)
    THEN Filter(filtered,
                [f \in Elements(filtered) |-> f.price_total <= Val(max_price)])
    ELSE filtered

\* slip: the end of the window excluded
FilterByDepTime_EndExclusive(filtered, dep_time_between) ==
    IF ~IsNone(dep_time_between)
    THEN LET start_time == Val(dep_time_between)[1]
             end_time   == Val(dep_time_between)[2]
         IN  Filter(filtered,
                    [f \in Elements(filtered) |->
                        /\ f.itinerary # << >>
                        /\ start_time <= f.itinerary[1].dep_time_local.time
                        /\ f.itinerary[1].dep_time_local.time < end_time])
    ELSE filtered

\* the departure-time criterion: "if dep_time_between:"
FilterByDepTime(filtered, dep_time_between) ==
    IF ~IsNone(dep_time_between)
    THEN LET start_time == Val(dep_time_between)[1]
             end_time   == Val(dep_time_between)[2]
         IN  Filter(filtered,
                    [f \in Elements(filtered) |->
                        /\ f.itinerary # << >>
                        /\ start_time <= f.itinerary[1].dep_time_local.time
                        /\ f.itinerary[1].dep_time_local.time <= end_time])
    ELSE filtered

\* slip: the end of the date range excluded
FilterByDates_EndExclusive(filtered, dates) ==
    IF ~IsNone(dates)
    THEN LET start_date == Val(dates)[1]
             end_date   == Val(dates)[2]
         IN  IF ~IsNone(end_date)
             THEN Filter(filtered,
                    [f \in Elements(filtered) |->
                        /\ f.itinerary # << >>
                        /\ start_date <= f.itinerary[1].dep_time_local.date
                        /\ f.itinerary[1].dep_time_local.date < Val(end_date)])
             ELSE Filter(filtered,
                    [f \in Elements(filtered) |->
                        /\ f.itinerary # << >>
                        /\ f.itinerary[1].dep_time_local.date = start_date])
    ELSE filtered

\* slip: a flight with no segments let through instead of dropped
FilterByDates_KeepsEmpty(filtered, dates) ==
    IF ~IsNone(dates)
    THEN LET start_date == Val(dates)[1]
             end_date   == Val(dates)[2]
         IN  IF ~IsNone(end_date)
             THEN Filter(filtered,
                    [f \in Elements(filtered) |->
                        \/ f.itinerary = << >>
                        \/ /\ start_date <= f.itinerary[1].dep_time_local.date
                           /\ f.itinerary[1].dep_time_local.date <= Val(end_date)])
             ELSE Filter(filtered,
                    [f \in Elements(filtered) |->
                        \/ f.itinerary = << >>
                        \/ f.itinerary[1].dep_time_local.date = start_date])
    ELSE filtered

\* the date criterion: "if dates:", then "if end_date:"
FilterByDates(filtered, dates) ==
    IF ~IsNone(dates)
    THEN LET start_date == Val(dates)[1]
             end_date   == Val(dates)[2]
         IN  IF ~IsNone(end_date)
             THEN Filter(filtered,
                    [f \in Elements(filtered) |->
                        /\ f.itinerary # << >>
                        /\ start_date <= f.itinerary[1].dep_time_local.date
                        /\ f.itinerary[1].dep_time_local.date <= Val(end_date)])
             ELSE Filter(filtered,
                    [f \in Elements(filtered) |->
                        /\ f.itinerary # << >>
                        /\ f.itinerary[1].dep_time_local.date = start_date])
    ELSE filtered

\* slip: the price comprehension reads "flights" in place of "filtered"
filter_flights_PriceFromInput(fs, airlines, max_price, dep_time_between, dates) ==
    FilterByDates(
        FilterByDepTime(
            IF ~IsNone(max_price) THEN FilterByMaxPrice(fs, max_price)
            ELSE FilterByAirlines(fs, airlines),
            dep_time_between),
        dates)

\* filter_flights: the four criteria in the order of the code
filter_flights(fs, airlines, max_price, dep_time_between, dates) ==
    FilterByDates(
        FilterByDepTime(
            FilterByMaxPrice(
                FilterByAirlines(fs, airlines),
                max_price),
            dep_time_between),
        dates)

\* slip: an empty list of airlines counts as a criterion
ReturnsInput_UnlessGiven(airlines, max_price, dep_time_between, dates) ==
    /\ IsNone(airlines)
    /\ IsNone(max_price)
    /\ IsNone(dep_time_between)
    /\ IsNone(dates)

\* filter_flights returns the list object it was given (no list comprehension
\* ran) exactly when no criterion's guard passed
ReturnsInput(airlines, max_price, dep_time_between, dates) ==
    /\ IsNone(airlines) \/ Val(airlines) = << >>
    /\ IsNone(max_price)
    /\ IsNone(dep_time_between)
    /\ IsNone(dates)

\* ---------------------------------------------------------- display_flights
RECURSIVE SumDurations(_)
\* sum(s.duration_minutes for s in itinerary)
SumDurations(itinerary) ==
    IF itinerary = << >> THEN 0
    ELSE Head(itinerary).duration_minutes + SumDurations(Tail(itinerary))

\* the key of the departure sort
DepartureKey(f) ==
    IF f.itinerary # << >> THEN f.itinerary[1].dep_time_local
    ELSE datetime_min

\* datetime.__lt__ raises TypeError between a naive and an aware datetime;
\* the keys of the other sorts are numbers
KeyRaises(sort_by, f, g) ==
    sort_by = "departure" /\ DepartureKey(f).aware # DepartureKey(g).aware

\* key(f) < key(g)
KeyLess(sort_by, f, g) ==
    CASE sort_by = "price" -> f.price_total < g.price_total
      [] sort_by = "duration" ->
            SumDurations(f.itinerary) < SumDurations(g.itinerary)
      [] OTHER ->
            \/ DepartureKey(f).date < DepartureKey(g).date
            \/ /\ DepartureKey(f).date = DepartureKey(g).date
               /\ DepartureKey(f).time < DepartureKey(g).time

RECURSIVE Insert_Unstable(_, _, _)
\* slip: x goes before the elements of equal key
Insert_Unstable(s, x, sort_by) ==
    IF s = << >> THEN [raised |-> FALSE, list |-> <<x>>]
    ELSE LET last == s[Len(s)]
         IN  IF KeyRaises(sort_by, x, last)
             THEN [raised |-> TRUE, list |-> Append(s, x)]
             ELSE IF ~KeyLess(sort_by, last, x)
             THEN LET r == Insert_Unstable(SubSeq(s, 1, Len(s) - 1), x, sort_by)
                  IN  [raised |-> r.raised, list |-> Append(r.list, last)]
             ELSE [raised |-> FALSE, list |-> Append(s, x)]

RECURSIVE Insert_DropsEqual(_, _, _)
\* slip: x is left out when an element of equal key is already in place
Insert_DropsEqual(s, x, sort_by) ==
    IF s = << >> THEN [raised |-> FALSE, list |-> <<x>>]
    ELSE LET last == s[Len(s)]
         IN  IF KeyRaises(sort_by, x, last)
             THEN [raised |-> TRUE, list |-> Append(s, x)]
             ELSE IF KeyLess(sort_by, x, last)
             THEN LET r == Insert_DropsEqual(SubSeq(s, 1, Len(s) - 1), x, sort_by)
                  IN  [raised |-> r.raised, list |-> Append(r.list, last)]
             ELSE IF KeyLess(sort_by, last, x)
             THEN [raised |-> FALSE, list |-> Append(s, x)]
             ELSE [raised |-> FALSE, list |-> s]

RECURSIVE Insert(_, _, _)
\* one step of list.sort: x goes after the last element whose key is not
\* greater; a comparison that raises ends the sort
Insert(s, x, sort_by) ==
    IF s = << >> THEN [raised |-> FALSE, list |-> <<x>>]
    ELSE LET last == s[Len(s)]
         IN  IF KeyRaises(sort_by, x, last)
             THEN [raised |-> TRUE, list |-> Append(s, x)]
             ELSE IF KeyLess(sort_by, x, last)
             THEN LET r == Insert(SubSeq(s, 1, Len(s) - 1), x, sort_by)
                  IN  [raised |-> r.raised, list |-> Append(r.list, last)]
             ELSE [raised |-> FALSE, list |-> Append(s, x)]

RECURSIVE SortFrom(_, _, _)
\* list.sort(key=...): the elements of rest are inserted, left to right, into
\* the sorted prefix done
SortFrom(done, rest, sort_by) ==
    IF rest = << >> THEN [raised |-> FALSE, list |-> done]
    ELSE LET r == Insert(done, Head(rest), sort_by)
         IN  IF r.raised THEN [raised |-> TRUE, list |-> r.list \o Tail(rest)]
             ELSE SortFrom(r.list, Tail(rest), sort_by)

\* display_flights: nothing is sorted if the list is empty or the key
\* is not one of the three
SortFlights(fs, sort_by) ==
    IF fs = << >> \/ sort_by \notin {"price", "duration", "departure"}
    THEN [raised |-> FALSE, list |-> fs]
    ELSE SortFrom(<< >>, fs, sort_by)

\* the orders of the elements of s
PermutationsOf(s) ==
    { [i \in 1..Len(s) |-> s[p[i]]] :
        p \in { q \in [1..Len(s) -> 1..Len(s)] :
                  \A i, j \in 1..Len(s) : q[i] = q[j] => i = j } }

\* ================================================================ strings
\* A str is the sequence of its characters; << >> is the empty string.
DigitChars == <<"0", "1", "2", "3", "4", "5", "6", "7", "8", "9">>

LowerChars == <<"a", "b", "c", "d", "e", "f", "g", "h", "i", "j", "k", "l", "m", "n", "o", "p", "q", "r", "s", "t", "u", "v", "w", "x", "y", "z">>

UpperChars == <<"A", "B", "C", "D", "E", "F", "G", "H", "I", "J", "K", "L", "M", "N", "O", "P", "Q", "R", "S", "T", "U", "V", "W", "X", "Y", "Z">>

IsDigit(c) == \E i \in 1..10 : DigitChars[i] = c

DigitValue(c) == (CHOOSE i \in 1..10 : DigitChars[i] = c) - 1

\* str.upper() and str.lower(), character by character
UpperChar(c) ==
    IF \E i \in 1..26 : LowerChars[i] = c
    THEN UpperChars[CHOOSE i \in 1..26 : LowerChars[i] = c]
    ELSE c

LowerChar(c) ==
    IF \E i \in 1..26 : UpperChars[i] = c
    THEN LowerChars[CHOOSE i \in 1..26 : UpperChars[i] = c]
    ELSE c

UpperStr(s) == [i \in 1..Len(s) |-> UpperChar(s[i])]

LowerStr(s) == [i \in 1..Len(s) |-> LowerChar(s[i])]

RECURSIVE Strip(_)
\* str.strip(): white space removed at both ends
Strip(s) ==
    IF s = << >> THEN s
    ELSE IF Head(s) = " " THEN Strip(Tail(s))
    ELSE IF s[Len(s)] = " " THEN Strip(SubSeq(s, 1, Len(s) - 1))
    ELSE s

RECURSIVE Split(_, _)
\* str.split(sep): the pieces between the occurrences of the character sep
Split(s, sep) ==
    IF \E i \in 1..Len(s) : s[i] = sep
    THEN LET i == CHOOSE k \in 1..Len(s) :
                      s[k] = sep /\ \A j \in 1..(k - 1) : s[j] # sep
         IN  <<SubSeq(s, 1, i - 1)>> \o Split(SubSeq(s, i + 1, Len(s)), sep)
    ELSE <<s>>

\* "sub in s"
Contains(sub, s) ==
    \E i \in 1..(Len(s) - Len(sub) + 1) : SubSeq(s, i, i + Len(sub) - 1) = sub

RECURSIVE DigitsValue(_)
DigitsValue(ds) ==
    IF ds = << >> THEN 0
    ELSE 10 * DigitsValue(SubSeq(ds, 1, Len(ds) - 1)) + DigitValue(ds[Len(ds)])

\* int(s) on the characters of the model (digits, letters, blank and
\* punctuation): white space is stripped and what is left must be digits;
\* anything else raises ValueError
int(s) ==
    LET t == Strip(s)
    IN  IF t # << >> /\ \A i \in 1..Len(t) : IsDigit(t[i])
        THEN [raised |-> "none", value |-> DigitsValue(t)]
        ELSE [raised |-> "ValueError", value |-> 0]

RECURSIVE IntToStr(_)
\* str(n) for n >= 0; a negative n has the sign in front
IntToStr(n) ==
    IF n < 0 THEN <<"-">> \o IntToStr(0 - n)
    ELSE IF n < 10 THEN <<DigitChars[n + 1]>>
    ELSE IntToStr(n \div 10) \o <<DigitChars[(n % 10) + 1]>>

RECURSIVE Join(_, _)
\* sep.join(parts)
Join(parts, sep) ==
    IF parts = << >> THEN << >>
    ELSE IF Len(parts) = 1 THEN parts[1]
    ELSE parts[1] \o <<sep>> \o Join(Tail(parts), sep)

\* ------------------------------------------------------- parse_time_window
\* datetime.time(hour, minute): ValueError outside 0..23 and 0..59
time(hour, minute) ==
    IF hour \in 0..23 /\ minute \in 0..59
    THEN [raised |-> "none", value |-> <<hour, minute>>]
    ELSE [raised |-> "ValueError", value |-> <<0, 0>>]

\* "a, b = map(int, s.split(':'))": ValueError unless there are exactly two
\* fields and int() takes both
HourMinute(s) ==
    LET fields == Split(s, ":")
    IN  IF Len(fields) # 2 THEN [raised |-> "ValueError", value |-> <<0, 0>>]
        ELSE IF int(fields[1]).raised # "none" \/ int(fields[2]).raised # "none"
        THEN [raised |-> "ValueError", value |-> <<0, 0>>]
        ELSE [raised |-> "none",
              value |-> <<int(fields[1]).value, int(fields[2]).value>>]

TimeWindowExit == [raised |-> "Exit", code |-> 1, value |-> None]

\* slip: a window that ends before it starts is refused
parse_time_window_Ordered(time_window) ==
    IF IsNone(time_window) \/ Val(time_window) = << >>
    THEN [raised |-> "none", code |-> 0, value |-> None]
    ELSE LET parts == Split(Val(time_window), "-")
         IN  IF Len(parts) # 2 THEN TimeWindowExit
             ELSE LET st == HourMinute(parts[1])
                      en == HourMinute(parts[2])
                  IN  IF st.raised # "none" \/ en.raised # "none"
                      THEN TimeWindowExit
                      ELSE IF \/ st.value[1] > en.value[1]
                              \/ /\ st.value[1] = en.value[1]
                                 /\ st.value[2] > en.value[2]
                              \/ time(st.value[1], st.value[2]).raised # "none"
                              \/ time(en.value[1], en.value[2]).raised # "none"
                      THEN TimeWindowExit
                      ELSE [raised |-> "none", code |-> 0,
                            value |-> Some(<<st.value, en.value>>)]

\* slip: the ValueError of time() is not turned into the exit
parse_time_window_Unchecked(time_window) ==
    IF IsNone(time_window) \/ Val(time_window) = << >>
    THEN [raised |-> "none", code |-> 0, value |-> None]
    ELSE LET parts == Split(Val(time_window), "-")
         IN  IF Len(parts) # 2 THEN TimeWindowExit
             ELSE LET st == HourMinute(parts[1])
                      en == HourMinute(parts[2])
                  IN  IF st.raised # "none" \/ en.raised # "none"
                      THEN TimeWindowExit
                      ELSE [raised |-> "none", code |-> 0,
                            value |-> Some(<<st.value, en.value>>)]

\* parse_time_window: None for None and for the empty string; every
\* ValueError of the parse becomes typer.Exit(1)
parse_time_window(time_window) ==
    IF IsNone(time_window) \/ Val(time_window) = << >>
    THEN [raised |-> "none", code |-> 0, value |-> None]
    ELSE LET parts == Split(Val(time_window), "-")
         IN  IF Len(parts) # 2 THEN TimeWindowExit
             ELSE LET st == HourMinute(parts[1])
                      en == HourMinute(parts[2])
                  IN  IF st.raised # "none" \/ en.raised # "none"
                      THEN TimeWindowExit
                      ELSE IF \/ time(st.value[1], st.value[2]).raised # "none"
                              \/ time(en.value[1], en.value[2]).raised # "none"
                      THEN TimeWindowExit
                      ELSE [raised |-> "none", code |-> 0,
                            value |-> Some(<<st.value, en.value>>)]

\* the texts tried as hour and as minute
HourTexts == { <<"0", "0">>, <<"0", "6">>, <<"2", "3">>, <<"2", "4">>, <<"6">>, <<"a", "b">>, << >> }

MinuteTexts == { <<"0", "0">>, <<"5", "9">>, <<"6", "0">>, <<"5">>, <<" ", "5">> }

ClockTexts == { h \o <<":">> \o m : h \in HourTexts, m \in MinuteTexts }

\* the --dep-window texts: two clock texts around "-", and other shapes
TimeWindowStrings ==
    { None }
    \cup { Some(a \o <<"-">> \o b) : a \in ClockTexts, b \in ClockTexts }
    \cup { Some(a) : a \in ClockTexts }
    \cup { Some(s) : s \in { <<"b", "a", "d">>, <<"0", "6", "0", "0", "-", "1", "2", "0", "0">>, <<"0", "6", ":", "0", "0", ":", "0", "0", "-", "1", "2", ":", "0", "0">>,
                             <<"0", "6", ":", "0", "0", "-", "1", "2", ":", "0", "0", "-", "2", "3", ":", "0", "0">>, <<"0", "6", ":", "0", "0", "-", "-", "1", "2", ":", "0", "0">>,
                             <<"-", "0", "6", ":", "0", "0">>, <<"0", "6", ":", "0", "0", "-">>, <<"-">>, <<":", "-", ":">> } }

\* ------------------------------------------------- normalize_airline_codes
\* AIRLINE_CODES, in the order of the source: <<code, display name>>
AIRLINE_CODES ==
    << <<<<"Q", "R">>, <<"Q", "a", "t", "a", "r", " ", "A", "i", "r", "w", "a", "y", "s">>>>,
       <<<<"Q", "F">>, <<"Q", "a", "n", "t", "a", "s">>>>,
       <<<<"B", "A">>, <<"B", "r", "i", "t", "i", "s", "h", " ", "A", "i", "r", "w", "a", "y", "s">>>>,
       <<<<"E", "K">>, <<"E", "m", "i", "r", "a", "t", "e", "s">>>>,
       <<<<"S", "K">>, <<"S", "A", "S">>>>,
       <<<<"S", "Q">>, <<"S", "i", "n", "g", "a", "p", "o", "r", "e", " ", "A", "i", "r", "l", "i", "n", "e", "s">>>>,
       <<<<"A", "Y">>, <<"F", "i", "n", "n", "a", "i", "r">>>>,
       <<<<"S", "A", "S">>, <<"S", "A", "S">>>> >>

\* d[key] = value on a dict kept as a sequence of <<key, value>>: a key that
\* is there keeps its place and takes the new value, a new key goes last
DictSet(d, key, value) ==
    IF \E i \in 1..Len(d) : d[i][1] = key
    THEN [i \in 1..Len(d) |-> IF d[i][1] = key THEN <<key, value>> ELSE d[i]]
    ELSE Append(d, <<key, value>>)

RECURSIVE NamesToCodes(_)
\* {v.lower(): k for k, v in AIRLINE_CODES.items()} over the first n items
NamesToCodes(n) ==
    IF n = 0 THEN << >>
    ELSE DictSet(NamesToCodes(n - 1),
                 LowerStr(AIRLINE_CODES[n][2]), AIRLINE_CODES[n][1])

AIRLINE_NAMES_TO_CODES == NamesToCodes(Len(AIRLINE_CODES))

\* one pass of the loop body: the code for one comma-separated piece
ResolveAirline(piece) ==
    LET airline == UpperStr(Strip(piece))
        names   == AIRLINE_NAMES_TO_CODES
        hits    == { i \in 1..Len(names) : Contains(LowerStr(airline), names[i][1]) }
    IN  IF \E i \in 1..Len(AIRLINE_CODES) : AIRLINE_CODES[i][1] = airline
        THEN airline
        ELSE IF hits # {}
        THEN names[CHOOSE i \in hits : \A j \in hits : i <= j][2]
        ELSE airline

\* normalize_airline_codes: None for None and for the empty string
normalize_airline_codes(airlines) ==
    IF IsNone(airlines) \/ Val(airlines) = << >> THEN None
    ELSE LET pieces == Split(Val(airlines), ",")
         IN  Some([i \in 1..Len(pieces) |-> ResolveAirline(pieces[i])])

\* most comma-separated pieces in an --airlines text
MaxTokens == 2

AirlineTokens ==
    { <<"Q", "R">>, <<"q", "r">>, <<" ", "e", "k", " ">>, <<"q", "a", "t", "a", "r">>, <<"E", "m", "i", "r", "a", "t", "e", "s">>, <<"s", "a", "s">>, <<"S", "K">>,
      <<"a", "i", "r">>, <<"X", "X">>, <<"z", "z">>, << >>, <<" ">> }

\* the --airlines texts
AirlineStrings ==
    { None }
    \cup { Some(Join(ts, ",")) : ts \in SeqsUpTo(AirlineTokens, MaxTokens) \ { << >> } }

\* --------------------------------------------------------- format_duration
\* slip: the hours rounded to the nearest instead of floored
format_duration_Rounded(minutes) ==
    LET hours == (minutes + 30) \div 60
        mins  == minutes % 60
    IN  IntToStr(hours) \o <<"h", " ">> \o IntToStr(mins) \o <<"m">>

\* format_duration: f"{hours}h {mins}m" with hours = minutes // 60 and
\* mins = minutes % 60
format_duration(minutes) ==
    LET hours == minutes \div 60
        mins  == minutes % 60
    IN  IntToStr(hours) \o <<"h", " ">> \o IntToStr(mins) \o <<"m">>

\* longest duration formatted
MaxMinutes == 670

\* ------------------------------------------------------------ format_stops
\* slip: the singular is missing
format_stops_NoSingular(segments) ==
    LET stops == Len(segments) - 1
    IN  IF stops = 0 THEN <<"n", "o", "n", "-", "s", "t", "o", "p">>
        ELSE IntToStr(stops) \o <<" ", "s", "t", "o", "p", "s">>

\* format_stops: len(segments) - 1 stops
format_stops(segments) ==
    LET stops == Len(segments) - 1
    IN  IF stops = 0 THEN <<"n", "o", "n", "-", "s", "t", "o", "p">>
        ELSE IF stops = 1 THEN <<"1", " ", "s", "t", "o", "p">>
        ELSE IntToStr(stops) \o <<" ", "s", "t", "o", "p", "s">>

\* longest itinerary formatted
MaxSegments == 4

\* the itineraries of 0..MaxSegments segments
Itineraries ==
    { [i \in 1..n |-> FlightSegment(Aware(1, i), 1, "QR")] : n \in 0..MaxSegments }

\* -------------------------------------------------------- parse_date_range
\* the %Y, %m and %d directives of strptime, as the patterns they compile to:
\* \d\d\d\d, 1[0-2]|0[1-9]|[1-9] and 3[01]|[12]\d|0[1-9]|[1-9]| [1-9]
MatchesYear(s) ==
    Len(s) = 4 /\ \A i \in 1..4 : IsDigit(s[i])

MatchesMonth(s) ==
    \/ Len(s) = 2 /\ s[1] = "1" /\ s[2] \in {"0", "1", "2"}
    \/ Len(s) = 2 /\ s[1] = "0" /\ IsDigit(s[2]) /\ s[2] # "0"
    \/ Len(s) = 1 /\ IsDigit(s[1]) /\ s[1] # "0"

MatchesDay(s) ==
    \/ Len(s) = 2 /\ s[1] = "3" /\ s[2] \in {"0", "1"}
    \/ Len(s) = 2 /\ s[1] \in {"1", "2"} /\ IsDigit(s[2])
    \/ Len(s) = 2 /\ s[1] = "0" /\ IsDigit(s[2]) /\ s[2] # "0"
    \/ Len(s) = 1 /\ IsDigit(s[1]) /\ s[1] # "0"
    \/ Len(s) = 2 /\ s[1] = " " /\ IsDigit(s[2]) /\ s[2] # "0"

IsLeap(year) ==
    year % 4 = 0 /\ (year % 100 # 0 \/ year % 400 = 0)

DaysInMonth(year, month) ==
    IF month = 2 THEN (IF IsLeap(year) THEN 29 ELSE 28)
    ELSE IF month \in {4, 6, 9, 11} THEN 30
    ELSE 31

DateError == [raised |-> "ValueError", value |-> <<0, 0, 0>>]

\* datetime.date(year, month, day): ValueError outside the calendar
date(year, month, day) ==
    IF /\ year \in 1..9999
       /\ month \in 1..12
       /\ day \in 1..DaysInMonth(year, month)
    THEN [raised |-> "none", value |-> <<year, month, day>>]
    ELSE DateError

\* slip: the day is not checked against the month
strptime_AnyDay(s) ==
    LET parts == Split(s, "-")
    IN  IF /\ Len(parts) = 3
           /\ MatchesYear(parts[1])
           /\ MatchesMonth(parts[2])
           /\ MatchesDay(parts[3])
        THEN [raised |-> "none",
              value |-> <<DigitsValue(parts[1]), DigitsValue(parts[2]),
                          int(parts[3]).value>>]
        ELSE DateError

\* datetime.strptime(s, "%Y-%m-%d").date(): the whole text has to match
\* year-month-day, and the three numbers have to be a date of the calendar
strptime(s) ==
    LET parts == Split(s, "-")
    IN  IF /\ Len(parts) = 3
           /\ MatchesYear(parts[1])
           /\ MatchesMonth(parts[2])
           /\ MatchesDay(parts[3])
        THEN date(DigitsValue(parts[1]), DigitsValue(parts[2]),
                  int(parts[3]).value)
        ELSE DateError

DateRangeError == [raised |-> "ValueError", value |-> << >>]

\* parse_date_range: (date, None) or (start, end); ValueError from the
\* two-name unpacking and from strptime
parse_date_range(date_input) ==
    IF Contains(<<":">>, date_input)
    THEN LET parts == Split(date_input, ":")
         IN  IF Len(parts) # 2 THEN DateRangeError
             ELSE LET start_date == strptime(parts[1])
                      end_date   == strptime(parts[2])
                  IN  IF start_date.raised # "none" \/ end_date.raised # "none"
                      THEN DateRangeError
                      ELSE [raised |-> "none",
                            value  |-> <<start_date.value, Some(end_date.value)>>]
    ELSE LET single_date == strptime(date_input)
         IN  IF single_date.raised # "none" THEN DateRangeError
             ELSE [raised |-> "none", value |-> <<single_date.value, None>>]

\* texts given as one date
SingleDateTexts ==
    { <<"2", "0", "2", "5", "-", "1", "2", "-", "1", "0">>, <<"2", "0", "2", "4", "-", "0", "2", "-", "2", "9">>, <<"2", "0", "2", "5", "-", "1", "-", "5">>, <<"2", "0", "2", "5", "-", "1", "2", "-", " ", "5">>,
      <<"2", "0", "2", "5", "-", "0", "2", "-", "2", "9">>, <<"2", "0", "2", "5", "-", "1", "3", "-", "0", "1">>, <<"2", "0", "2", "5", "-", "1", "2", "-", "3", "2">>, <<"2", "0", "2", "5", "-", "0", "4", "-", "3", "1">>,
      <<"2", "5", "-", "1", "2", "-", "1", "0">>, <<"b", "a", "d">>, <<"2", "0", "2", "5", "-", "1", "2", "-", "1", "0", " ">>, <<"2", "0", "2", "5", "/", "1", "2", "/", "1", "0">>,
      <<"0", "0", "0", "0", "-", "0", "1", "-", "0", "1">>, <<"2", "0", "2", "5", "1", "2", "1", "0">>, <<"2", "0", "2", "5", "-", "1", "2", "-", "1", "0", "-", "1", "1">>, << >> }

\* texts given as a range
DateRangeTexts ==
    { <<"2", "0", "2", "5", "-", "1", "2", "-", "1", "0", ":", "2", "0", "2", "5", "-", "1", "2", "-", "1", "2">>, <<"2", "0", "2", "5", "-", "1", "2", "-", "1", "2", ":", "2", "0", "2", "5", "-", "1", "2", "-", "1", "0">>,
      <<"2", "0", "2", "5", "-", "1", "-", "5", ":", "2", "0", "2", "5", "-", "1", "2", "-", "1", "0">>, <<"2", "0", "2", "5", "-", "1", "2", "-", "1", "0", ":", "b", "a", "d">>, <<"b", "a", "d", ":", "2", "0", "2", "5", "-", "1", "2", "-", "1", "0">>,
      <<"2", "0", "2", "5", "-", "1", "2", "-", "1", "0", ":", "2", "0", "2", "5", "-", "0", "2", "-", "2", "9">>, <<"2", "0", "2", "5", "-", "1", "2", "-", "1", "0", ":">>, <<":", "2", "0", "2", "5", "-", "1", "2", "-", "1", "0">>, <<":">>,
      <<"2", "0", "2", "5", "-", "1", "2", "-", "1", "0", ":", "2", "0", "2", "5", "-", "1", "2", "-", "1", "1", ":", "2", "0", "2", "5", "-", "1", "2", "-", "1", "2">>, <<"2", "0", "2", "5", "-", "1", "2", "-", "1", "0", ":", ":", "2", "0", "2", "5", "-", "1", "2", "-", "1", "2">> }

\* the --date and --date-range texts
DateStrings == SingleDateTexts \cup DateRangeTexts

\* ================================================================ providers
\* A decoded JSON value is <<type, content>>: None, a number, a str (its
\* characters), a list (its items) or a dict (its <<key, value>> items).
JNull == <<"null", << >>>>

JNum(n) == <<"number", <<n>>>>

JStr(chars) == <<"string", chars>>

JArr(items) == <<"array", items>>

JObj(items) == <<"object", items>>

\* key in d
Has(d, key) == \E i \in 1..Len(d[2]) : d[2][i][1] = key

\* d[key] for a key that is there
Item(d, key) == d[2][CHOOSE i \in 1..Len(d[2]) : d[2][i][1] = key][2]

\* d.get(key, default)
Get(d, key, default) == IF Has(d, key) THEN Item(d, key) ELSE default

\* the dict without one key, and with one value replaced
Without(d, key) == JObj(SelectSeq(d[2], LAMBDA kv : kv[1] # key))

With(d, key, value) ==
    JObj([i \in 1..Len(d[2]) |->
             IF d[2][i][1] = key THEN <<key, value>> ELSE d[2][i]])

\* "for x in value": the items of a list, the characters of a str, the keys
\* of a dict (each a str); None and a number raise TypeError
Iter(value) ==
    IF value[1] = "array" THEN [raised |-> "none", items |-> value[2]]
    ELSE IF value[1] = "string"
    THEN [raised |-> "none",
          items  |-> [i \in 1..Len(value[2]) |-> JStr(<<value[2][i]>>)]]
    ELSE IF value[1] = "object"
    THEN [raised |-> "none",
          items  |-> [i \in 1..Len(value[2]) |-> JStr(<<value[2][i][1]>>)]]
    ELSE [raised |-> "TypeError", items |-> << >>]

\* The model counts dates in days from 2025-12-09 and times of day in
\* minutes from midnight.
DaysBeforeYear(year) ==
    365 * (year - 1) + (year - 1) \div 4 - (year - 1) \div 100
        + (year - 1) \div 400

RECURSIVE DaysBeforeMonth(_, _)
DaysBeforeMonth(year, month) ==
    IF month = 1 THEN 0
    ELSE DaysBeforeMonth(year, month - 1) + DaysInMonth(year, month - 1)

\* date.toordinal()
toordinal(d) == DaysBeforeYear(d[1]) + DaysBeforeMonth(d[1], d[2]) + d[3]

Epoch == toordinal(<<2025, 12, 9>>)

DayNumber(d) == toordinal(d) - Epoch

MinuteOfDay(t) == 60 * t[1] + t[2]

\* the str a JSON string spells, for the airline codes of the model
Text(chars) ==
    CASE chars = <<"Q", "R">> -> "QR"
      [] chars = <<"E", "K">> -> "EK"
      [] chars = <<"B", "A">> -> "BA"
      [] chars = <<"q", "r">> -> "qr"
      [] chars = <<"e", "k">> -> "ek"
      [] chars = << >> -> ""
      [] OTHER -> "other"

\* two digits at i, i + 1 of s
Pair(s, i) == 10 * DigitValue(s[i]) + DigitValue(s[i + 1])

\* datetime.fromisoformat on a JSON value: TypeError unless a str; of the
\* forms it reads, the texts here have the full one, YYYY-MM-DDTHH:MM:SS,
\* which gives a naive datetime; any other text raises ValueError
fromisoformat(value) ==
    IF value[1] # "string" THEN [raised |-> "TypeError", value |-> Naive(0, 0)]
    ELSE LET s == value[2]
         IN  IF /\ Len(s) = 19
                /\ \A i \in {1, 2, 3, 4, 6, 7, 9, 10, 12, 13, 15, 16, 18, 19} :
                      IsDigit(s[i])
                /\ s[5] = "-" /\ s[8] = "-" /\ s[11] = "T"
                /\ s[14] = ":" /\ s[17] = ":"
                /\ date(DigitsValue(SubSeq(s, 1, 4)), Pair(s, 6), Pair(s, 9)).raised = "none"
                /\ Pair(s, 12) <= 23 /\ Pair(s, 15) <= 59 /\ Pair(s, 18) <= 59
             THEN [raised |-> "none",
                   value  |-> Naive(DayNumber(<<DigitsValue(SubSeq(s, 1, 4)),
                                                Pair(s, 6), Pair(s, 9)>>),
                                    MinuteOfDay(<<Pair(s, 12), Pair(s, 15)>>))]
             ELSE [raised |-> "ValueError", value |-> Naive(0, 0)]

\* the result of a call that returns a list: what it raised, or the list
Raised(exception) == [raised |-> exception, value |-> << >>]

Returned(list) == [raised |-> "none", value |-> list]

\* ------------------------------------------------------------ MockProvider
\* the body of the segment loop: one FlightSegment, or the first exception
MockSegment(seg_data) ==
    IF seg_data[1] # "object" THEN Raised("TypeError")
    ELSE IF ~Has(seg_data, "dep_time_local") THEN Raised("KeyError")
    ELSE IF fromisoformat(Item(seg_data, "dep_time_local")).raised # "none"
    THEN Raised(fromisoformat(Item(seg_data, "dep_time_local")).raised)
    ELSE IF ~Has(seg_data, "arr_time_local") THEN Raised("KeyError")
    ELSE IF fromisoformat(Item(seg_data, "arr_time_local")).raised # "none"
    THEN Raised(fromisoformat(Item(seg_data, "arr_time_local")).raised)
    ELSE IF \E key \in {"from_airport", "to_airport", "duration_minutes",
                        "flight_number", "airline_code"} : ~Has(seg_data, key)
    THEN Raised("KeyError")
    ELSE Returned(<<FlightSegment(
                      [fromisoformat(Item(seg_data, "dep_time_local")).value
                          EXCEPT !.aware = TRUE],
                      Item(seg_data, "duration_minutes")[2][1],
                      Text(Item(seg_data, "airline_code")[2]))>>)

RECURSIVE MockSegments(_)
\* the segment loop: it stops at the first exception
MockSegments(items) ==
    IF items = << >> THEN Returned(<< >>)
    ELSE LET first == MockSegment(Head(items))
         IN  IF first.raised # "none" THEN first
             ELSE LET rest == MockSegments(Tail(items))
                  IN  IF rest.raised # "none" THEN rest
                      ELSE Returned(first.value \o rest.value)

\* the body of the flight loop: one Flight, or the first exception
MockFlight(flight_data) ==
    IF flight_data[1] # "object" THEN Raised("AttributeError")
    ELSE LET itinerary == Iter(Get(flight_data, "itinerary", JArr(<< >>)))
         IN  IF itinerary.raised # "none" THEN Raised(itinerary.raised)
             ELSE LET segments == MockSegments(itinerary.items)
                  IN  IF segments.raised # "none" THEN segments
                      ELSE IF \E key \in {"price_total", "currency", "airline_codes"} :
                                 ~Has(flight_data, key)
                      THEN Raised("KeyError")
                      ELSE LET codes == Item(flight_data, "airline_codes")
                           IN  Returned(<<Flight(
                                   Item(flight_data, "price_total")[2][1],
                                   IF codes[1] = "array"
                                   THEN [i \in 1..Len(codes[2]) |-> Text(codes[2][i][2])]
                                   ELSE << >>,
                                   segments.value)>>)

RECURSIVE MockFlights(_)
\* the flight loop: it stops at the first exception
MockFlights(items) ==
    IF items = << >> THEN Returned(<< >>)
    ELSE LET first == MockFlight(Head(items))
         IN  IF first.raised # "none" THEN first
             ELSE LET rest == MockFlights(Tail(items))
                  IN  IF rest.raised # "none" THEN rest
                      ELSE Returned(first.value \o rest.value)

\* MockProvider.search_flights over the loaded mock_data
MockProvider_search_flights(mock_data) ==
    IF mock_data[1] # "object" THEN Raised("AttributeError")
    ELSE LET records == Iter(Get(mock_data, "flights", JArr(<< >>)))
         IN  IF records.raised # "none" THEN Raised(records.raised)
             ELSE MockFlights(records.items)

\* the dataset file: missing, not JSON, or the JSON value it holds
FileMissing == [state |-> "missing", json |-> JNull]

FileInvalid == [state |-> "invalid", json |-> JNull]

FileWith(value) == [state |-> "json", json |-> value]

\* _load_mock_data: FileNotFoundError and JSONDecodeError give the empty
\* dataset, anything json.load returns is kept
MockProvider_load_mock_data(file) ==
    IF file.state = "json" THEN file.json
    ELSE JObj(<< <<"flights", JArr(<< >>)>> >>)

\* ------------------------------------------------------------ KiwiProvider
\* datetime.fromtimestamp(seconds, tz=UTC).astimezone(Europe/Oslo) for the
\* winter timestamps of the model, one hour ahead of UTC; TypeError unless a
\* number
OsloOffset == 3600

EpochDay == Epoch - toordinal(<<1970, 1, 1>>)

fromtimestamp(value) ==
    IF value[1] # "number" THEN [raised |-> "TypeError", value |-> Aware(0, 0)]
    ELSE [raised |-> "none",
          value  |-> Aware((value[2][1] + OsloOffset) \div 86400 - EpochDay,
                           ((value[2][1] + OsloOffset) % 86400) \div 60)]

\* int(x / y): the quotient rounded towards zero
IntQuotient(x, y) == IF x >= 0 THEN x \div y ELSE -((-x) \div y)

\* float(value): a number, or a str that spells one; ValueError for another
\* str, TypeError for None, a list and a dict
float(value) ==
    IF value[1] = "number" THEN [raised |-> "none", value |-> value[2][1]]
    ELSE IF value[1] = "string" THEN int(value[2])
    ELSE [raised |-> "TypeError", value |-> 0]

\* the body of the route loop: one FlightSegment, or the first exception
KiwiRoute(route) ==
    IF route[1] # "object" THEN Raised("TypeError")
    ELSE IF ~Has(route, "dTimeUTC") THEN Raised("KeyError")
    ELSE IF fromtimestamp(Item(route, "dTimeUTC")).raised # "none"
    THEN Raised("TypeError")
    ELSE IF ~Has(route, "aTimeUTC") THEN Raised("KeyError")
    ELSE IF fromtimestamp(Item(route, "aTimeUTC")).raised # "none"
    THEN Raised("TypeError")
    ELSE IF ~Has(route, "flyFrom") \/ ~Has(route, "flyTo") THEN Raised("KeyError")
    ELSE Returned(<<FlightSegment(
                      fromtimestamp(Item(route, "dTimeUTC")).value,
                      IntQuotient(Item(route, "aTimeUTC")[2][1]
                                      - Item(route, "dTimeUTC")[2][1], 60),
                      Text(Get(route, "airline", JStr(<< >>))[2]))>>)

RECURSIVE KiwiRoutes(_)
KiwiRoutes(items) ==
    IF items = << >> THEN Returned(<< >>)
    ELSE LET first == KiwiRoute(Head(items))
         IN  IF first.raised # "none" THEN first
             ELSE LET rest == KiwiRoutes(Tail(items))
                  IN  IF rest.raised # "none" THEN rest
                      ELSE Returned(first.value \o rest.value)

\* the body of the try block: one Flight, or the first exception
KiwiFlight(flight_data) ==
    IF flight_data[1] # "object" THEN Raised("AttributeError")
    ELSE LET route == Iter(Get(flight_data, "route", JArr(<< >>)))
         IN  IF route.raised # "none" THEN Raised(route.raised)
             ELSE LET segments == KiwiRoutes(route.items)
                      price    == float(Get(flight_data, "price", JNum(0)))
                  IN  IF segments.raised # "none" THEN segments
                      ELSE IF price.raised # "none" THEN Raised(price.raised)
                      ELSE Returned(<<Flight(
                              price.value,
                              SetToSeq({ Text(Item(route.items[i], "airline")[2]) :
                                         i \in { j \in 1..Len(route.items) :
                                                   Get(route.items[j], "airline",
                                                       JStr(<< >>))[2] # << >> } }),
                              segments.value)>>)

RECURSIVE KiwiFlights(_)
\* the flight loop: KeyError, ValueError and TypeError skip the record, any
\* other exception leaves the loop
KiwiFlights(items) ==
    IF items = << >> THEN Returned(<< >>)
    ELSE LET first == KiwiFlight(Head(items))
         IN  IF first.raised \notin {"none", "KeyError", "ValueError", "TypeError"}
             THEN first
             ELSE LET rest == KiwiFlights(Tail(items))
                  IN  IF rest.raised # "none" THEN rest
                      ELSE IF first.raised # "none" THEN rest
                      ELSE Returned(first.value \o rest.value)

\* KiwiProvider._parse_flights
KiwiProvider_parse_flights(data) ==
    IF data[1] # "object" THEN Raised("AttributeError")
    ELSE LET records == Iter(Get(data, "data", JArr(<< >>)))
         IN  IF records.raised # "none" THEN Raised(records.raised)
             ELSE KiwiFlights(records.items)

\* what requests.get and the response give: an exception of requests, a
\* status that raise_for_status refuses, a body that is not JSON, or JSON
NoResponse == [outcome |-> "ConnectionError", json |-> JNull]

ErrorStatus == [outcome |-> "HTTPError", json |-> JNull]

BodyNotJson == [outcome |-> "JSONDecodeError", json |-> JNull]

ResponseWith(value) == [outcome |-> "json", json |-> value]

\* slip: a failed request or parse gives the empty list
KiwiProvider_search_flights_EmptyOnFailure(response) ==
    IF response.outcome # "json" THEN Returned(<< >>)
    ELSE IF KiwiProvider_parse_flights(response.json).raised # "none"
    THEN Returned(<< >>)
    ELSE KiwiProvider_parse_flights(response.json)

\* KiwiProvider.search_flights: every failure leaves as a plain Exception
KiwiProvider_search_flights(response) ==
    IF response.outcome # "json" THEN Raised("Exception")
    ELSE IF KiwiProvider_parse_flights(response.json).raised # "none"
    THEN Raised("Exception")
    ELSE KiwiProvider_parse_flights(response.json)

\* AmadeusProvider.search_flights and SkyscannerProvider.search_flights
StubProvider_search_flights == Raised("NotImplementedError")

\* ------------------------------------------- Amadeus offers of the web page
\* the longest run of digits at the start of s
RECURSIVE LeadingDigits(_)
LeadingDigits(s) ==
    IF s # << >> /\ IsDigit(Head(s)) THEN 1 + LeadingDigits(Tail(s)) ELSE 0

\* the group (\d+)<letter> at the start of s, optional: how many characters
\* it takes and the number it holds, 0 of each when it is not there
UnitGroup(s, letter) ==
    LET n == LeadingDigits(s)
    IN  IF n > 0 /\ Len(s) > n /\ s[n + 1] = letter
        THEN [taken |-> n + 1, number |-> DigitsValue(SubSeq(s, 1, n))]
        ELSE [taken |-> 0, number |-> 0]

\* slip: the minutes are read only after hours
iso8601_duration_to_minutes_HoursFirst(d) ==
    IF d[1] # "string" THEN [raised |-> "TypeError", value |-> 0]
    ELSE IF Len(d[2]) < 2 \/ SubSeq(d[2], 1, 2) # <<"P", "T">>
    THEN [raised |-> "none", value |-> 0]
    ELSE LET body  == SubSeq(d[2], 3, Len(d[2]))
             h     == UnitGroup(body, "H")
             after == SubSeq(body, h.taken + 1, Len(body))
             mins  == IF h.taken = 0 THEN [taken |-> 0, number |-> 0]
                      ELSE UnitGroup(after, "M")
         IN  IF mins.taken # Len(after) THEN [raised |-> "none", value |-> 0]
             ELSE [raised |-> "none", value |-> h.number * 60 + mins.number]

\* _iso8601_duration_to_minutes: re.fullmatch of PT(?:(\d+)H)?(?:(\d+)M)?,
\* 0 when the text does not match; TypeError unless a str
iso8601_duration_to_minutes(d) ==
    IF d[1] # "string" THEN [raised |-> "TypeError", value |-> 0]
    ELSE IF Len(d[2]) < 2 \/ SubSeq(d[2], 1, 2) # <<"P", "T">>
    THEN [raised |-> "none", value |-> 0]
    ELSE LET body  == SubSeq(d[2], 3, Len(d[2]))
             h     == UnitGroup(body, "H")
             after == SubSeq(body, h.taken + 1, Len(body))
             mins  == UnitGroup(after, "M")
         IN  IF mins.taken # Len(after) THEN [raised |-> "none", value |-> 0]
             ELSE [raised |-> "none", value |-> h.number * 60 + mins.number]

\* _parse_dt: a final Z is read as the offset +00:00, and the offset is then
\* dropped; AttributeError unless a str
parse_dt(value) ==
    IF value[1] # "string" THEN [raised |-> "AttributeError", value |-> Naive(0, 0)]
    ELSE fromisoformat(IF Len(value[2]) = 20 /\ value[2][20] = "Z"
                       THEN JStr(SubSeq(value[2], 1, 19))
                       ELSE value)

\* the seconds of a timestamp text that _parse_dt reads
SecondOf(value) == Pair(value[2], 18)

\* (arr_dt_local - dep_dt_local).total_seconds()
total_seconds(dep, dep_second, arr, arr_second) ==
    (arr.date - dep.date) * 86400 + (arr.time - dep.time) * 60
        + (arr_second - dep_second)

\* "Prefer the given duration; if missing, compute diff"
SegmentDuration(given, dep, dep_second, arr, arr_second) ==
    IF given = 0
    THEN total_seconds(dep, dep_second, arr, arr_second) \div 60
    ELSE given

\* dep["at"] and arr["at"]: TypeError unless a dict, KeyError without the key
At(segment, end) ==
    IF Item(segment, end)[1] # "object" THEN [raised |-> "TypeError", value |-> Naive(0, 0)]
    ELSE IF ~Has(Item(segment, end), "at") THEN [raised |-> "KeyError", value |-> Naive(0, 0)]
    ELSE parse_dt(Item(Item(segment, end), "at"))

\* the body of the segment loop: one FlightSegment, or the first exception
AmadeusSegment(seg) ==
    IF seg[1] # "object" THEN Raised("TypeError")
    ELSE IF \E key \in {"carrierCode", "number", "departure", "arrival"} :
              ~Has(seg, key)
    THEN Raised("KeyError")
    ELSE LET dep   == At(seg, "departure")
             arr   == At(seg, "arrival")
             given == iso8601_duration_to_minutes(
                          Get(seg, "duration", JStr(<<"P", "T", "0", "M">>)))
         IN  IF dep.raised # "none" THEN Raised(dep.raised)
             ELSE IF arr.raised # "none" THEN Raised(arr.raised)
             ELSE IF given.raised # "none" THEN Raised(given.raised)
             ELSE IF ~Has(Item(seg, "departure"), "iataCode")
                        \/ ~Has(Item(seg, "arrival"), "iataCode")
             THEN Raised("KeyError")
             ELSE Returned(<<FlightSegment(
                     dep.value,
                     SegmentDuration(
                         given.value,
                         dep.value,
                         SecondOf(Item(Item(seg, "departure"), "at")),
                         arr.value,
                         SecondOf(Item(Item(seg, "arrival"), "at"))),
                     Text(Item(seg, "carrierCode")[2]))>>)

\* one pass of a loop that appends: the first exception leaves the loop,
\* first that of this item, then that of the items after it
Appended(first, rest) ==
    IF first.raised # "none" THEN first
    ELSE IF rest.raised # "none" THEN rest
    ELSE Returned(first.value \o rest.value)

RECURSIVE AmadeusSegments(_)
\* the segment loop: it stops at the first exception
AmadeusSegments(items) ==
    IF items = << >> THEN Returned(<< >>)
    ELSE Appended(AmadeusSegment(Head(items)), AmadeusSegments(Tail(items)))

RECURSIVE AmadeusItineraries(_)
\* the itinerary loop: the segments of all itineraries, one after the other
AmadeusItineraries(items) ==
    IF items = << >> THEN Returned(<< >>)
    ELSE IF Head(items)[1] # "object" THEN Raised("AttributeError")
    ELSE LET segs == Iter(Get(Head(items), "segments", JArr(<< >>)))
         IN  IF segs.raised # "none" THEN Raised(segs.raised)
             ELSE Appended(AmadeusSegments(segs.items),
                           AmadeusItineraries(Tail(items)))

\* the place of a carrier code in the order of str
CodeRank(code) ==
    CASE code = "" -> 0
      [] code = "BA" -> 1
      [] code = "EK" -> 2
      [] code = "QR" -> 3
      [] code = "ek" -> 4
      [] code = "other" -> 5
      [] code = "qr" -> 6

RECURSIVE sorted(_)
\* sorted(airline_codes_set)
sorted(S) ==
    IF S = {} THEN << >>
    ELSE LET least == CHOOSE x \in S : \A y \in S : CodeRank(x) <= CodeRank(y)
         IN  <<least>> \o sorted(S \ {least})

\* the body of the offer loop: one Flight, or the first exception
AmadeusOffer(offer) ==
    IF offer[1] # "object" THEN Raised("TypeError")
    ELSE IF ~Has(offer, "price") THEN Raised("KeyError")
    ELSE IF Item(offer, "price")[1] # "object" THEN Raised("TypeError")
    ELSE IF ~Has(Item(offer, "price"), "grandTotal") THEN Raised("KeyError")
    ELSE IF float(Item(Item(offer, "price"), "grandTotal")).raised # "none"
    THEN Raised(float(Item(Item(offer, "price"), "grandTotal")).raised)
    ELSE IF ~Has(Item(offer, "price"), "currency") THEN Raised("KeyError")
    ELSE LET itins == Iter(Get(offer, "itineraries", JArr(<< >>)))
         IN  IF itins.raised # "none" THEN Raised(itins.raised)
             ELSE LET segments_all == AmadeusItineraries(itins.items)
                  IN  IF segments_all.raised # "none" THEN segments_all
                      ELSE Returned(<<Flight(
                              float(Item(Item(offer, "price"), "grandTotal")).value,
                              sorted({ segments_all.value[i].airline_code :
                                         i \in 1..Len(segments_all.value) }),
                              segments_all.value)>>)

RECURSIVE AmadeusOffers(_)
\* the offer loop: it stops at the first exception
AmadeusOffers(items) ==
    IF items = << >> THEN Returned(<< >>)
    ELSE Appended(AmadeusOffer(Head(items)), AmadeusOffers(Tail(items)))

\* what the Amadeus client gives: a ResponseError, or the data of the response
AmadeusError == [outcome |-> "ResponseError", data |-> JNull]

AmadeusData(value) == [outcome |-> "data", data |-> value]

\* resp.data or []
OrEmptyList(value) ==
    IF value \in {JNull, JNum(0), JStr(<< >>), JArr(<< >>), JObj(<< >>)}
    THEN JArr(<< >>)
    ELSE value

\* fetch_live_offers_amadeus: a ResponseError gives the empty list, any
\* other exception leaves the function
fetch_live_offers_amadeus(response) ==
    IF response.outcome # "data" THEN Returned(<< >>)
    ELSE LET offers == Iter(OrEmptyList(response.data))
         IN  IF offers.raised # "none" THEN Raised(offers.raised)
             ELSE AmadeusOffers(offers.items)

\* ------------------------------------------------------------ get_provider
\* slip: an empty str counts like any other value
Truthy_NotNone(value) == ~IsNone(value)

\* a str option or environment value counts when it is set and not empty
Truthy(value) == ~IsNone(value) /\ Val(value) # << >>

\* PROVIDER_NAME = os.getenv("PROVIDER", "MOCK").upper()
PROVIDER_NAME(env) ==
    UpperStr(IF IsNone(env.PROVIDER) THEN <<"M", "O", "C", "K">> ELSE Val(env.PROVIDER))

NoProvider ==
    [class |-> "none", api_key |-> None, mock_data |-> JNull, warning |-> FALSE]

\* a provider that is not the mock one keeps its key
LiveProvider(class, api_key) ==
    [class |-> class, api_key |-> api_key, mock_data |-> JNull, warning |-> FALSE]

\* MockProvider(): the dataset is loaded in the constructor
MockProvider(file, warning) ==
    [class |-> "MockProvider", api_key |-> None,
     mock_data |-> MockProvider_load_mock_data(file), warning |-> warning]

\* slip: a stub is not returned, the mock provider takes its place
get_provider_StubsFallBack(env, file) ==
    IF PROVIDER_NAME(env) = <<"K", "I", "W", "I">> /\ Truthy(env.KIWI_API_KEY)
    THEN LiveProvider("KiwiProvider", env.KIWI_API_KEY)
    ELSE MockProvider(file, PROVIDER_NAME(env) # <<"M", "O", "C", "K">>)

\* slip: the warning does not look at the name
get_provider_AlwaysWarns(env, file) ==
    IF PROVIDER_NAME(env) = <<"K", "I", "W", "I">> /\ Truthy(env.KIWI_API_KEY)
    THEN LiveProvider("KiwiProvider", env.KIWI_API_KEY)
    ELSE IF PROVIDER_NAME(env) = <<"A", "M", "A", "D", "E", "U", "S">> /\ Truthy(env.AMADEUS_API_KEY)
    THEN LiveProvider("AmadeusProvider", env.AMADEUS_API_KEY)
    ELSE IF PROVIDER_NAME(env) = <<"S", "K", "Y", "S", "C", "A", "N", "N", "E", "R">> /\ Truthy(env.SKYSCANNER_API_KEY)
    THEN LiveProvider("SkyscannerProvider", env.SKYSCANNER_API_KEY)
    ELSE MockProvider(file, TRUE)

\* get_provider: the provider, and whether the warning was echoed
get_provider(env, file) ==
    IF PROVIDER_NAME(env) = <<"K", "I", "W", "I">> /\ Truthy(env.KIWI_API_KEY)
    THEN LiveProvider("KiwiProvider", env.KIWI_API_KEY)
    ELSE IF PROVIDER_NAME(env) = <<"A", "M", "A", "D", "E", "U", "S">> /\ Truthy(env.AMADEUS_API_KEY)
    THEN LiveProvider("AmadeusProvider", env.AMADEUS_API_KEY)
    ELSE IF PROVIDER_NAME(env) = <<"S", "K", "Y", "S", "C", "A", "N", "N", "E", "R">> /\ Truthy(env.SKYSCANNER_API_KEY)
    THEN LiveProvider("SkyscannerProvider", env.SKYSCANNER_API_KEY)
    ELSE MockProvider(file, PROVIDER_NAME(env) # <<"M", "O", "C", "K">>)

\* -------------------------------------------------------------- the inputs
\* a record of the Mock dataset
MockSegmentData ==
    JObj(<< <<"from_airport", JStr(<<"O", "S", "L">>)>>,
            <<"to_airport", JStr(<<"P", "E", "R">>)>>,
            <<"dep_time_local", JStr(<<"2", "0", "2", "5", "-", "1", "2", "-", "1", "0", "T", "0", "0", ":", "0", "1", ":", "0", "0">>)>>,
            <<"arr_time_local", JStr(<<"2", "0", "2", "5", "-", "1", "2", "-", "1", "0", "T", "0", "0", ":", "0", "3", ":", "0", "0">>)>>,
            <<"duration_minutes", JNum(2)>>,
            <<"flight_number", JStr(<<"Q", "R", "1">>)>>,
            <<"airline_code", JStr(<<"Q", "R">>)>> >>)

MockFlightData ==
    JObj(<< <<"price_total", JNum(1)>>,
            <<"currency", JStr(<<"N", "O", "K">>)>>,
            <<"airline_codes", JArr(<<JStr(<<"Q", "R">>)>>)>>,
            <<"itinerary", JArr(<<MockSegmentData>>)>>,
            <<"booking_link", JNull>> >>)

MockFlightData2 ==
    With(With(MockFlightData, "price_total", JNum(0)),
         "itinerary",
         JArr(<<With(MockSegmentData, "dep_time_local",
                     JStr(<<"2", "0", "2", "5", "-", "1", "2", "-", "1", "1", "T", "0", "0", ":", "0", "0", ":", "0", "0">>))>>))

\* the records a dataset file can hold: whole ones, and ones with a field
\* missing, a timestamp that is not one, or no record at all
MockRecords ==
    { MockFlightData, MockFlightData2,
      Without(MockFlightData, "itinerary"),
      Without(MockFlightData, "currency"),
      With(MockFlightData, "itinerary",
           JArr(<<Without(MockSegmentData, "arr_time_local")>>)),
      With(MockFlightData, "itinerary",
           JArr(<<With(MockSegmentData, "dep_time_local", JStr(<<"s", "o", "o", "n">>))>>)),
      JNull }

\* most records in a dataset file and in a response
MaxRecords == 2

\* the states of the dataset file
DatasetFiles ==
    { FileMissing, FileInvalid,
      FileWith(JNull), FileWith(JArr(<< >>)), FileWith(JArr(<<MockFlightData>>)),
      FileWith(JObj(<< >>)),
      FileWith(JObj(<< <<"flights", JNull>> >>)),
      FileWith(JObj(<< <<"flights", JObj(<< >>)>> >>)),
      FileWith(JObj(<< <<"flights", JStr(<<"n", "o", "n", "e">>)>> >>)) }
    \cup { FileWith(JObj(<< <<"flights", JArr(records)>> >>)) :
             records \in SeqsUpTo(MockRecords, MaxRecords) }

\* the dataset files of a search
SearchDatasetFiles ==
    { FileMissing, FileWith(JArr(<< >>)),
      FileWith(JObj(<< <<"flights", JArr(<<MockFlightData, MockFlightData2>>)>> >>)),
      FileWith(JObj(<< <<"flights",
                         JArr(<<Without(MockFlightData, "itinerary"),
                                MockFlightData>>)>> >>)) }

\* a record of a Kiwi response; 1765321260 is 2025-12-10 00:01 in Oslo
KiwiRouteData ==
    JObj(<< <<"dTimeUTC", JNum(1765321260)>>,
            <<"aTimeUTC", JNum(1765321380)>>,
            <<"flyFrom", JStr(<<"O", "S", "L">>)>>,
            <<"flyTo", JStr(<<"P", "E", "R">>)>>,
            <<"flight_no", JStr(<<"Q", "R", "1">>)>>,
            <<"airline", JStr(<<"Q", "R">>)>> >>)

KiwiFlightData ==
    JObj(<< <<"price", JNum(1)>>,
            <<"currency", JStr(<<"N", "O", "K">>)>>,
            <<"route", JArr(<<KiwiRouteData>>)>>,
            <<"deep_link", JStr(<<"l", "i", "n", "k">>)>> >>)

KiwiFlightData2 ==
    JObj(<< <<"price", JNum(2)>>,
            <<"currency", JStr(<<"N", "O", "K">>)>>,
            <<"route", JArr(<<With(With(KiwiRouteData, "airline", JStr(<<"E", "K">>)),
                                   "dTimeUTC", JNum(1765321200))>>)>>,
            <<"deep_link", JStr(<<"l", "i", "n", "k">>)>> >>)

\* the records of a response: whole ones, and ones with a field missing or
\* of the wrong type, an arrival before the departure, or no record at all
KiwiRecords ==
    { KiwiFlightData, KiwiFlightData2,
      Without(KiwiFlightData, "price"),
      Without(KiwiFlightData, "route"),
      With(KiwiFlightData, "price", JStr(<<"f", "r", "e", "e">>)),
      With(KiwiFlightData, "route", JNull),
      With(KiwiFlightData, "route", JArr(<<Without(KiwiRouteData, "aTimeUTC")>>)),
      With(KiwiFlightData, "route",
           JArr(<<With(KiwiRouteData, "aTimeUTC", JNum(1765321140))>>)),
      With(KiwiFlightData, "route",
           JArr(<<With(KiwiRouteData, "dTimeUTC", JStr(<<"n", "o", "w">>))>>)),
      JNull }

\* the decoded bodies of a response
KiwiData ==
    { JArr(<< >>), JObj(<< >>), JObj(<< <<"data", JNull>> >>) }
    \cup { JObj(<< <<"data", JArr(records)>> >>) :
             records \in SeqsUpTo(KiwiRecords, MaxRecords) }

\* the responses of a search
KiwiResponses ==
    { NoResponse, ErrorStatus, BodyNotJson, ResponseWith(JArr(<< >>)),
      ResponseWith(JObj(<< <<"data", JArr(<<KiwiFlightData2, KiwiFlightData>>)>> >>)),
      ResponseWith(JObj(<< <<"data", JArr(<<KiwiFlightData, JNull>>)>> >>)),
      ResponseWith(JObj(<< <<"data", JArr(<<Without(KiwiFlightData, "route"),
                                            KiwiFlightData>>)>> >>)) }

\* a segment of an Amadeus offer with the given times and duration
SegmentWith(dep_at, arr_at, duration) ==
    JObj(<< <<"carrierCode", JStr(<<"Q", "R">>)>>,
            <<"number", JStr(<<"1">>)>>,
            <<"departure", JObj(<< <<"iataCode", JStr(<<"O", "S", "L">>)>>,
                                   <<"at", dep_at>> >>)>>,
            <<"arrival", JObj(<< <<"iataCode", JStr(<<"P", "E", "R">>)>>,
                                 <<"at", arr_at>> >>)>>,
            <<"duration", duration>> >>)

\* a segment of two minutes
AmadeusSegmentData ==
    SegmentWith(JStr(<<"2", "0", "2", "5", "-", "1", "2", "-", "1", "0", "T", "0", "0", ":", "0", "1", ":", "0", "0">>), JStr(<<"2", "0", "2", "5", "-", "1", "2", "-", "1", "0", "T", "0", "0", ":", "0", "3", ":", "0", "0">>), JStr(<<"P", "T", "2", "M">>))

\* the departure and arrival texts of a segment: the arrival later, at the
\* same time, earlier, on the day before, with seconds and with a final Z
DepartureTexts ==
    { JStr(<<"2", "0", "2", "5", "-", "1", "2", "-", "1", "0", "T", "0", "0", ":", "0", "1", ":", "0", "0">>), JStr(<<"2", "0", "2", "5", "-", "1", "2", "-", "1", "0", "T", "0", "0", ":", "0", "1", ":", "3", "0">>) }

ArrivalTexts ==
    { JStr(<<"2", "0", "2", "5", "-", "1", "2", "-", "1", "0", "T", "0", "0", ":", "0", "3", ":", "0", "0">>), JStr(<<"2", "0", "2", "5", "-", "1", "2", "-", "1", "0", "T", "0", "0", ":", "0", "1", ":", "0", "0">>),
      JStr(<<"2", "0", "2", "5", "-", "1", "2", "-", "1", "0", "T", "0", "0", ":", "0", "0", ":", "0", "0">>), JStr(<<"2", "0", "2", "5", "-", "1", "2", "-", "0", "9", "T", "2", "3", ":", "5", "9", ":", "0", "0">>),
      JStr(<<"2", "0", "2", "5", "-", "1", "2", "-", "1", "1", "T", "0", "0", ":", "0", "3", ":", "2", "0">>), JStr(<<"2", "0", "2", "5", "-", "1", "2", "-", "1", "0", "T", "0", "0", ":", "0", "3", ":", "0", "0", "Z">>) }

\* the durations of a segment
SegmentDurations ==
    { JStr(<<"P", "T", "2", "M">>), JStr(<<"P", "T", "1", "H", "5", "M">>), JStr(<<"P", "T", "0", "M">>), JStr(<<"P", "T">>),
      JStr(<<"P", "T", "0", "H", "0", "M">>), JStr(<<"P", "1", "D", "T", "2", "H">>), JStr(<< >>), JNull }

AmadeusSegmentPool ==
    { SegmentWith(d, a, t) :
        d \in DepartureTexts, a \in ArrivalTexts, t \in SegmentDurations }
    \cup { Without(SegmentWith(d, a, JNull), "duration") :
             d \in DepartureTexts, a \in ArrivalTexts }
    \cup { Without(AmadeusSegmentData, "carrierCode"),
           With(AmadeusSegmentData, "arrival", JNull),
           SegmentWith(JStr(<<"s", "o", "o", "n">>), JStr(<<"2", "0", "2", "5", "-", "1", "2", "-", "1", "0", "T", "0", "0", ":", "0", "3", ":", "0", "0">>), JStr(<<"P", "T", "2", "M">>)),
           SegmentWith(JNull, JStr(<<"2", "0", "2", "5", "-", "1", "2", "-", "1", "0", "T", "0", "0", ":", "0", "3", ":", "0", "0">>), JStr(<<"P", "T", "2", "M">>)) }

\* an offer with the given itineraries, each a list of segments
AmadeusOfferData(itineraries) ==
    JObj(<< <<"price", JObj(<< <<"grandTotal", JStr(<<"2">>)>>,
                               <<"currency", JStr(<<"N", "O", "K">>)>> >>)>>,
            <<"itineraries",
              JArr([i \in 1..Len(itineraries) |->
                       JObj(<< <<"segments", JArr(itineraries[i])>> >>)])>> >>)

\* the offers of a response: one segment each, and offers with more
\* segments, more itineraries, none, or a part missing
AmadeusOfferPool ==
    { AmadeusOfferData(<< <<seg>> >>) : seg \in AmadeusSegmentPool }
    \cup { AmadeusOfferData(<< <<AmadeusSegmentData,
                                 With(SegmentWith(JStr(<<"2", "0", "2", "5", "-", "1", "2", "-", "1", "0", "T", "0", "0", ":", "0", "1", ":", "0", "0">>),
                                                  JStr(<<"2", "0", "2", "5", "-", "1", "2", "-", "1", "0", "T", "0", "0", ":", "0", "0", ":", "0", "0">>),
                                                  JStr(<<"P", "T">>)),
                                      "carrierCode", JStr(<<"E", "K">>))>>,
                               <<With(Without(AmadeusSegmentData, "duration"),
                                      "carrierCode", JStr(<<"B", "A">>))>> >>),
           AmadeusOfferData(<< >>),
           AmadeusOfferData(<< << >> >>),
           Without(AmadeusOfferData(<< <<AmadeusSegmentData>> >>), "itineraries"),
           Without(AmadeusOfferData(<< <<AmadeusSegmentData>> >>), "price"),
           With(AmadeusOfferData(<< <<AmadeusSegmentData>> >>), "itineraries", JNull),
           With(AmadeusOfferData(<< <<AmadeusSegmentData>> >>), "itineraries",
                JArr(<<JNull>>)),
           JNull }

\* the offers of the responses with more than one offer
FewOffers ==
    { AmadeusOfferData(<< <<AmadeusSegmentData>> >>),
      AmadeusOfferData(<< <<Without(SegmentWith(JStr(<<"2", "0", "2", "5", "-", "1", "2", "-", "1", "0", "T", "0", "0", ":", "0", "1", ":", "0", "0">>),
                                                JStr(<<"2", "0", "2", "5", "-", "1", "2", "-", "0", "9", "T", "2", "3", ":", "5", "9", ":", "0", "0">>),
                                                JNull), "duration")>> >>),
      JNull }

\* what the Amadeus client gives
AmadeusResponses ==
    { AmadeusError, AmadeusData(JNull), AmadeusData(JArr(<< >>)),
      AmadeusData(JObj(<< <<"errors", JArr(<< >>)>> >>)) }
    \cup { AmadeusData(JArr(<<offer>>)) : offer \in AmadeusOfferPool }
    \cup { AmadeusData(JArr(offers)) : offers \in SeqsUpTo(FewOffers, MaxRecords) }

\* the hours and minutes of the duration texts
MaxHours == 11

HourCounts == { 0, 1, MaxHours }

MinuteCounts == { 0, 5, 59, 90 }

\* the texts handed to the duration parser: hours and minutes, one of them,
\* none, with leading zeros, and texts of another form
DurationStrings ==
    { <<"P", "T">> \o IntToStr(h) \o <<"H">> \o IntToStr(m) \o <<"M">> :
        h \in HourCounts, m \in MinuteCounts }
    \cup { <<"P", "T">> \o IntToStr(h) \o <<"H">> : h \in HourCounts }
    \cup { <<"P", "T">> \o IntToStr(m) \o <<"M">> : m \in MinuteCounts }
    \cup { <<"P", "T">>, <<"P", "T", "0", "1", "H", "0", "5", "M">>, << >>, <<"P">>, <<"P", "T", "5">>, <<"P", "T", "5", "M", "1", "H">>, <<"P", "1", "D", "T", "2", "H">>,
           <<"p", "t", "1", "h">>, <<"P", "T", "1", "H", " ", "5", "M">>, <<"P", "T", "-", "5", "M">>, <<"P", "T", "5", "S">>, <<"P", "T", "1", "H", "5", "M", " ">>, <<"T", "1", "H">>,
           <<"P", "T", "H">>, <<"P", "T", "M">>, <<"P", "T", "1", "H", "M">> }

\* the airline codes and the itineraries a Flight is constructed with
CodeLists == SeqsUpTo({"QR", "EK"}, 2)

SegmentPool ==
    { FlightSegment(Aware(1, 1), 2, code) : code \in {"QR", "EK", "BA"} }

FlightItineraries == SeqsUpTo(SegmentPool, MaxSegments)

\* the dataset files a Mock provider is constructed from: missing, without
\* records, and with records whose airline codes are one, two or none
MockFiles ==
    { FileMissing,
      FileWith(JObj(<< <<"flights", JArr(<< >>)>> >>)),
      FileWith(JObj(<< <<"flights", JArr(<<MockFlightData, MockFlightData2>>)>> >>)),
      FileWith(JObj(<< <<"flights",
                         JArr(<<With(MockFlightData, "airline_codes",
                                     JArr(<<JStr(<<"Q", "R">>), JStr(<<"E", "K">>)>>)),
                                With(MockFlightData2, "airline_codes",
                                     JArr(<< >>))>>)>> >>)) }

\* most calls of search_flights on one provider
MaxCalls == 2

\* most airline codes a caller leaves in the list of a Flight
MaxCodes == 3

\* the environment: PROVIDER and the three keys, each set or not, and two
\* more with PROVIDER in capitals and with a key set to the empty string
Environments ==
    [PROVIDER : { None, Some(<<"k", "i", "w", "i">>), Some(<<"A", "M", "A", "D", "E", "U", "S">>),
                  Some(<<"S", "K", "Y", "S", "C", "A", "N", "N", "E", "R">>), Some(<<"E", "X", "P", "E", "D", "I", "A">>) },
     KIWI_API_KEY : { None, Some(<<"k">>) },
     AMADEUS_API_KEY : { None, Some(<<"a">>) },
     SKYSCANNER_API_KEY : { None, Some(<<"s">>) }]
    \cup { [PROVIDER |-> Some(<<"M", "O", "C", "K">>), KIWI_API_KEY |-> Some(<<"k">>),
            AMADEUS_API_KEY |-> None, SKYSCANNER_API_KEY |-> None],
           [PROVIDER |-> Some(<<"K", "I", "W", "I">>), KIWI_API_KEY |-> Some(<< >>),
            AMADEUS_API_KEY |-> Some(<<"a">>), SKYSCANNER_API_KEY |-> None] }

\* the --date and --date-range options of a run: one of them, none, or both
DateOptions ==
    { [date |-> None, date_range |-> None] }
    \cup { [date |-> Some(d), date_range |-> None] : d \in DateStrings }
    \cup { [date |-> None, date_range |-> Some(d)] : d \in DateStrings }
    \cup { [date |-> Some(d), date_range |-> Some(r)] :
             d \in { <<"2", "0", "2", "5", "-", "1", "2", "-", "1", "0">>, << >> },
             r \in { <<"2", "0", "2", "5", "-", "1", "2", "-", "1", "0", ":", "2", "0", "2", "5", "-", "1", "2", "-", "1", "2">>, << >> } }

\* the --airlines, --dep-window, --max-price and --sort options of a run
AirlineOptions == { None, Some(<<"q", "a", "t", "a", "r", ",", "e", "k">>) }

WindowOptions == { None, Some(<<"0", "0", ":", "0", "0", "-", "0", "0", ":", "0", "1">>), Some(<<"1", "-", "2">>) }

PriceOptions == { None, Some(0) }

SortOptions == { "price", "departure" }

\* ------------------------------------------------------------------ state
VARIABLES
    flights,     \* the list the provider returned
    filtered,    \* the list filter_flights returned
    same_list,   \* filtered is the very list object flights
    call,        \* the call that ran last, with its arguments
    before,      \* the list given to display_flights, as it was on entry
    error,       \* the exception display_flights raised, or "none"
    pc,          \* "fetched", "filtered", "displayed"
    fn,          \* the utility function that was called, or "none"
    arg,         \* its argument
    ret,         \* what it returned or raised
    environ,     \* the environment of the search command
    argv,        \* its --date and --date-range options
    local,       \* its locals dates, airline_codes, time_window, provider
    echo,        \* the messages echoed so far
    exit_code,   \* the status the command ended with, once ended
    at,          \* the statement of search that runs next
    dataset,     \* self.mock_data of the Mock provider
    loaded,      \* self.mock_data as the constructor left it
    results,     \* the lists search_flights returned, as they are now
    returned     \* what each call of search_flights returned, as it was then

filterVars == <<flights, filtered, same_list, call, before, error, pc>>

utilVars == <<fn, arg, ret>>

searchVars == <<environ, argv, local, echo, exit_code, at>>

mockVars == <<dataset, loaded, results, returned>>

vars == <<filterVars, utilVars, searchVars, mockVars>>

\* no Mock provider has been constructed
MockIdle ==
    /\ dataset = JNull
    /\ loaded = JNull
    /\ results = << >>
    /\ returned = << >>

\* no utility function has been called
UtilIdle ==
    /\ fn = "none"
    /\ arg = None
    /\ ret = None

\* the locals of search before any is assigned
NoLocals ==
    [dates |-> None, airline_codes |-> None, time_window |-> None,
     provider |-> NoProvider]

\* no search command is running
SearchIdle ==
    /\ environ = [PROVIDER |-> None, KIWI_API_KEY |-> None,
                  AMADEUS_API_KEY |-> None, SKYSCANNER_API_KEY |-> None]
    /\ argv = [date |-> None, date_range |-> None]
    /\ local = NoLocals
    /\ echo = << >>
    /\ exit_code = None
    /\ at = "idle"

\* no list of flights is being filtered
FilterIdle ==
    /\ flights = << >>
    /\ filtered = << >>
    /\ same_list = FALSE
    /\ call = [op |-> "none"]
    /\ before = << >>
    /\ error = "none"
    /\ pc = "idle"

NoCall == [op |-> "none"]

\* flights = provider.search_flights(search_params)
Init ==
    /\ flights \in SeqsUpTo(FlightPool, MaxFlights)
    /\ filtered = << >>
    /\ same_list = FALSE
    /\ call = NoCall
    /\ before = << >>
    /\ error = "none"
    /\ pc = "fetched"
    /\ UtilIdle
    /\ SearchIdle
    /\ MockIdle

\* filtered = filter_flights(flights, ...)
FilterFlights ==
    \E airlines \in AirlineInputs, max_price \in PriceInputs,
       dep_time_between \in TimeWindowInputs, dates \in DateInputs :
        /\ pc = "fetched"
        /\ filtered' = filter_flights(flights, airlines, max_price,
                                      dep_time_between, dates)
        /\ same_list' = ReturnsInput(airlines, max_price,
                                     dep_time_between, dates)
        /\ call' = [op |-> "filter_flights", airlines |-> airlines,
                    max_price |-> max_price,
                    dep_time_between |-> dep_time_between, dates |-> dates]
        /\ pc' = "filtered"
        /\ UNCHANGED <<flights, before, error>>
        /\ UNCHANGED <<utilVars, searchVars, mockVars>>

\* display_flights(filtered, sort_by): the in-place sort.  After a sort that
\* raised, the list holds its elements in an order the sort does not promise.
DisplayFlights ==
    \E sort_by \in SortInputs :
        /\ pc = "filtered"
        /\ LET r == SortFlights(filtered, sort_by)
           IN  /\ IF r.raised
                  THEN /\ error' = "TypeError"
                       /\ filtered' \in PermutationsOf(filtered)
                  ELSE /\ error' = "none"
                       /\ filtered' = r.list
        /\ flights' = IF same_list THEN filtered' ELSE flights
        /\ before' = filtered
        /\ call' = [op |-> "display_flights", sort_by |-> sort_by]
        /\ pc' = "displayed"
        /\ UNCHANGED same_list
        /\ UNCHANGED <<utilVars, searchVars, mockVars>>

Next ==
    \/ FilterFlights
    \/ DisplayFlights

Spec == Init /\ [][Next]_vars

\* ------------------------------------------------- the utility functions
InitUtil ==
    /\ FilterIdle
    /\ UtilIdle
    /\ SearchIdle
    /\ MockIdle

\* time_window = parse_time_window(dep_window)
ParseTimeWindow ==
    \E raw \in TimeWindowStrings :
        /\ fn = "none"
        /\ fn' = "parse_time_window"
        /\ arg' = raw
        /\ ret' = parse_time_window(raw)
        /\ UNCHANGED <<filterVars, searchVars, mockVars>>

\* airline_codes = normalize_airline_codes(airlines)
NormalizeAirlineCodes ==
    \E raw \in AirlineStrings :
        /\ fn = "none"
        /\ fn' = "normalize_airline_codes"
        /\ arg' = raw
        /\ ret' = normalize_airline_codes(raw)
        /\ UNCHANGED <<filterVars, searchVars, mockVars>>

\* duration = format_duration(total_duration)
FormatDuration ==
    \E minutes \in 0..MaxMinutes :
        /\ fn = "none"
        /\ fn' = "format_duration"
        /\ arg' = minutes
        /\ ret' = format_duration(minutes)
        /\ UNCHANGED <<filterVars, searchVars, mockVars>>

\* stops = format_stops(flight.itinerary)
FormatStops ==
    \E segments \in Itineraries :
        /\ fn = "none"
        /\ fn' = "format_stops"
        /\ arg' = segments
        /\ ret' = format_stops(segments)
        /\ UNCHANGED <<filterVars, searchVars, mockVars>>

\* MockProvider().search_flights(params) with the dataset file as it is
MockSearchFlights ==
    \E file \in DatasetFiles :
        /\ fn = "none"
        /\ fn' = "MockProvider.search_flights"
        /\ arg' = file
        /\ ret' = MockProvider_search_flights(MockProvider(file, FALSE).mock_data)
        /\ UNCHANGED <<filterVars, searchVars, mockVars>>

\* self._parse_flights(data)
ParseFlights ==
    \E data \in KiwiData :
        /\ fn = "none"
        /\ fn' = "KiwiProvider._parse_flights"
        /\ arg' = data
        /\ ret' = KiwiProvider_parse_flights(data)
        /\ UNCHANGED <<filterVars, searchVars, mockVars>>

\* _iso8601_duration_to_minutes(d)
Iso8601Duration ==
    \E d \in DurationStrings :
        /\ fn = "none"
        /\ fn' = "_iso8601_duration_to_minutes"
        /\ arg' = d
        /\ ret' = iso8601_duration_to_minutes(JStr(d))
        /\ UNCHANGED <<filterVars, searchVars, mockVars>>

\* flights = fetch_live_offers_amadeus(...)
FetchLiveOffers ==
    \E response \in AmadeusResponses :
        /\ fn = "none"
        /\ fn' = "fetch_live_offers_amadeus"
        /\ arg' = response
        /\ ret' = fetch_live_offers_amadeus(response)
        /\ UNCHANGED <<filterVars, searchVars, mockVars>>

\* Flight(price_total, currency, airline_codes, itinerary): list(set(...))
\* gives the derived codes in an order of its own
NewFlight ==
    \E airline_codes \in CodeLists, itinerary \in FlightItineraries :
        /\ fn = "none"
        /\ fn' = "Flight"
        /\ arg' = [airline_codes |-> airline_codes, itinerary |-> itinerary]
        /\ \E order \in PermutationsOf(Flight(1, airline_codes, itinerary).airline_codes) :
              ret' = [Flight(1, airline_codes, itinerary) EXCEPT
                         !.airline_codes = IF airline_codes = << >> THEN order ELSE @]
        /\ UNCHANGED <<filterVars, searchVars, mockVars>>

NextUtil ==
    \/ NewFlight
    \/ Iso8601Duration
    \/ FetchLiveOffers
    \/ ParseTimeWindow
    \/ NormalizeAirlineCodes
    \/ FormatDuration
    \/ FormatStops
    \/ MockSearchFlights
    \/ ParseFlights

SpecUtil == InitUtil /\ [][NextUtil]_vars

\* ---------------------------------------------------- the search command
InitSearch ==
    /\ FilterIdle
    /\ UtilIdle
    /\ MockIdle
    /\ environ \in Environments
    /\ argv \in DateOptions
    /\ local = NoLocals
    /\ echo = << >>
    /\ exit_code = None
    /\ at = "validate"

\* raise typer.Exit(code) after an echo
Exit(message, code) ==
    /\ echo' = Append(echo, message)
    /\ exit_code' = Some(code)
    /\ at' = "exit"

\* "Validate inputs": one of --date and --date-range, not both
ValidateInputs ==
    /\ at = "validate"
    /\ IF ~Truthy(argv.date) /\ ~Truthy(argv.date_range)
       THEN Exit("ERROR: Please specify either --date or --date-range", 1)
       ELSE IF Truthy(argv.date) /\ Truthy(argv.date_range)
       THEN Exit("ERROR: Please specify either --date or --date-range, not both", 1)
       ELSE /\ at' = "parse_dates"
            /\ UNCHANGED <<echo, exit_code>>
    /\ UNCHANGED <<environ, argv, local>>
    /\ UNCHANGED <<filterVars, utilVars, mockVars>>

\* the text "Parse date(s)" hands to parse_date_range
DateInput == IF Truthy(argv.date) THEN Val(argv.date) ELSE Val(argv.date_range)

\* "Parse date(s)": a ValueError ends the command
ParseDates ==
    /\ at = "parse_dates"
    /\ IF parse_date_range(DateInput).raised # "none"
       THEN /\ Exit("ERROR: Invalid date format", 1)
            /\ UNCHANGED local
       ELSE /\ local' = [local EXCEPT !.dates = Some(parse_date_range(DateInput).value)]
            /\ at' = "parse_filters"
            /\ UNCHANGED <<echo, exit_code>>
    /\ UNCHANGED <<environ, argv>>
    /\ UNCHANGED <<filterVars, utilVars, mockVars>>

\* slip: the provider is fetched before the filters are parsed
ParseFilters_ProviderFirst ==
    \E airlines \in AirlineOptions, dep_window \in WindowOptions,
       file \in SearchDatasetFiles :
        /\ at = "parse_filters"
        /\ IF parse_time_window(dep_window).raised # "none"
           THEN /\ Exit("ERROR: Invalid time window format",
                        parse_time_window(dep_window).code)
                /\ local' = [local EXCEPT
                                !.airline_codes = normalize_airline_codes(airlines),
                                !.provider = get_provider(environ, file)]
           ELSE /\ local' = [local EXCEPT
                                !.airline_codes = normalize_airline_codes(airlines),
                                !.time_window = parse_time_window(dep_window).value]
                /\ at' = "get_provider"
                /\ UNCHANGED <<echo, exit_code>>
        /\ UNCHANGED <<environ, argv>>
        /\ UNCHANGED <<filterVars, utilVars, mockVars>>

\* "Parse filters": parse_time_window ends the command by itself
ParseFilters ==
    \E airlines \in AirlineOptions, dep_window \in WindowOptions :
        /\ at = "parse_filters"
        /\ IF parse_time_window(dep_window).raised # "none"
           THEN /\ Exit("ERROR: Invalid time window format",
                        parse_time_window(dep_window).code)
                /\ local' = [local EXCEPT
                                !.airline_codes = normalize_airline_codes(airlines)]
           ELSE /\ local' = [local EXCEPT
                                !.airline_codes = normalize_airline_codes(airlines),
                                !.time_window = parse_time_window(dep_window).value]
                /\ at' = "get_provider"
                /\ UNCHANGED <<echo, exit_code>>
        /\ UNCHANGED <<environ, argv>>
        /\ UNCHANGED <<filterVars, utilVars, mockVars>>

\* provider = get_provider(), with the dataset file as it is
GetProvider ==
    \E file \in SearchDatasetFiles :
        /\ at = "get_provider"
        /\ local' = [local EXCEPT !.provider = get_provider(environ, file)]
        /\ echo' = (IF get_provider(environ, file).warning
                    THEN Append(echo, "WARNING: No API key found")
                    ELSE echo) \o <<"Searching flights">>
        /\ at' = "search_flights"
        /\ UNCHANGED <<environ, argv, exit_code>>
        /\ UNCHANGED <<filterVars, utilVars, mockVars>>

\* provider.search_flights(search_params) of the provider's class
search_flights(response) ==
    CASE local.provider.class = "MockProvider" ->
            MockProvider_search_flights(local.provider.mock_data)
      [] local.provider.class = "KiwiProvider" ->
            KiwiProvider_search_flights(response)
      [] OTHER -> StubProvider_search_flights

\* the responses the provider's request can get; only Kiwi sends one
Responses ==
    IF local.provider.class = "KiwiProvider" THEN KiwiResponses ELSE { NoResponse }

\* flights = provider.search_flights(search_params); "except Exception"
\* ends the command
SearchFlights ==
    \E response \in Responses :
        /\ at = "search_flights"
        /\ IF search_flights(response).raised # "none"
           THEN /\ Exit("ERROR: Error searching flights", 1)
                /\ error' = search_flights(response).raised
                /\ UNCHANGED flights
           ELSE /\ flights' = search_flights(response).value
                /\ at' = "filter_flights"
                /\ UNCHANGED <<echo, exit_code, error>>
        /\ call' = [op |-> "search_flights", response |-> response]
        /\ UNCHANGED <<environ, argv, local>>
        /\ UNCHANGED <<filtered, same_list, before, pc>>
        /\ UNCHANGED <<utilVars, mockVars>>

\* the criteria search hands to filter_flights, in the units of the model
AirlinesCriterion ==
    IF IsNone(local.airline_codes) THEN None
    ELSE Some([i \in 1..Len(Val(local.airline_codes)) |->
                  Text(Val(local.airline_codes)[i])])

TimeCriterion ==
    IF IsNone(local.time_window) THEN None
    ELSE Some(<<MinuteOfDay(Val(local.time_window)[1]),
                MinuteOfDay(Val(local.time_window)[2])>>)

\* slip: the dates are not handed on
DatesCriterion_NotHandedOn == None

DatesCriterion ==
    Some(<<DayNumber(Val(local.dates)[1]),
           IF IsNone(Val(local.dates)[2]) THEN None
           ELSE Some(DayNumber(Val(Val(local.dates)[2])))>>)

\* the rest of the try block: filter_flights, the echo of the count and
\* display_flights; an exception of the sort ends the command with status 1
FilterAndDisplay ==
    \E max_price \in PriceOptions, sort_by \in SortOptions :
        /\ at = "filter_flights"
        /\ LET found == filter_flights(flights, AirlinesCriterion, max_price,
                                       TimeCriterion, DatesCriterion)
               r     == SortFlights(found, sort_by)
           IN  IF r.raised
               THEN /\ filtered' \in PermutationsOf(found)
                    /\ error' = "TypeError"
                    /\ echo' = echo \o <<"Found", "ERROR: Error searching flights">>
                    /\ exit_code' = Some(1)
               ELSE /\ filtered' = r.list
                    /\ error' = "none"
                    /\ echo' = Append(echo, "Found")
                    /\ exit_code' = Some(0)
        /\ call' = [op |-> "display_flights", sort_by |-> sort_by]
        /\ at' = "exit"
        /\ UNCHANGED <<environ, argv, local>>
        /\ UNCHANGED <<flights, same_list, before, pc>>
        /\ UNCHANGED <<utilVars, mockVars>>

NextSearch ==
    \/ ValidateInputs
    \/ ParseDates
    \/ ParseFilters
    \/ GetProvider
    \/ SearchFlights
    \/ FilterAndDisplay

SpecSearch == InitSearch /\ [][NextSearch]_vars

\* -------------------------------------------- the Mock provider, once built
\* A Flight of a returned list: the record of the dataset it was built from,
\* whether its airline_codes is the very list of that record (it is, unless
\* __post_init__ put a new list in its place), and its fields.
RecordOf(i) == Item(dataset, "flights")[2][i]

KeepsGivenCodes(record) ==
    \/ Item(record, "airline_codes")[2] # << >>
    \/ Get(record, "itinerary", JArr(<< >>))[2] = << >>

\* the list of a call, each Flight with its record
Entries(list) ==
    [i \in 1..Len(list) |->
        [record |-> i, shared |-> KeepsGivenCodes(RecordOf(i)), flight |-> list[i]]]

\* the airline codes the list of a record holds
CodesOfRecord(data, i) ==
    LET codes == Item(Item(data, "flights")[2][i], "airline_codes")[2]
    IN  [n \in 1..Len(codes) |-> Text(codes[n][2])]

\* the Flight as a reader sees it, under a given state of the dataset
Seen(entry, data) ==
    IF entry.shared
    THEN [entry.flight EXCEPT !.airline_codes = CodesOfRecord(data, entry.record)]
    ELSE entry.flight

SeenList(list, data) == [i \in 1..Len(list) |-> Seen(list[i], data)]

InitMock ==
    /\ FilterIdle
    /\ UtilIdle
    /\ SearchIdle
    /\ \E file \in MockFiles : dataset = MockProvider(file, FALSE).mock_data
    /\ loaded = dataset
    /\ results = << >>
    /\ returned = << >>

\* flights = provider.search_flights(params)
MockSearch ==
    /\ Len(returned) < MaxCalls
    /\ returned' = Append(returned, MockProvider_search_flights(dataset))
    /\ results' = Append(results, Entries(MockProvider_search_flights(dataset).value))
    /\ UNCHANGED <<dataset, loaded>>
    /\ UNCHANGED <<filterVars, utilVars, searchVars>>

\* flights.sort(key=...) on a returned list: the stable sort of the list
SortResult ==
    \E k \in 1..Len(results), sort_by \in SortOptions :
        \E q \in [1..Len(results[k]) -> 1..Len(results[k])] :
            LET sorted_list == [i \in 1..Len(results[k]) |-> results[k][q[i]]]
            IN  /\ \A i, j \in 1..Len(results[k]) : q[i] = q[j] => i = j
                /\ SeenList(sorted_list, dataset)
                      = SortFlights(SeenList(results[k], dataset), sort_by).list
                /\ \A i, j \in 1..Len(results[k]) :
                      (i < j /\ Seen(sorted_list[i], dataset) = Seen(sorted_list[j], dataset))
                          => q[i] < q[j]
                /\ sorted_list # results[k]
                /\ results' = [results EXCEPT ![k] = sorted_list]
                /\ UNCHANGED <<dataset, loaded, returned>>
                /\ UNCHANGED <<filterVars, utilVars, searchVars>>

\* flight.price_total = 0 on a Flight of a returned list
SetPrice ==
    \E k \in 1..Len(results) :
        \E j \in 1..Len(results[k]) :
            /\ results[k][j].flight.price_total # 0
            /\ results' = [results EXCEPT ![k][j].flight.price_total = 0]
            /\ UNCHANGED <<dataset, loaded, returned>>
            /\ UNCHANGED <<filterVars, utilVars, searchVars>>

\* flight.airline_codes.append("BA") on a Flight of a returned list: the list
\* object changes, and with it every holder of that object
AppendCode ==
    \E k \in 1..Len(results) :
        \E j \in 1..Len(results[k]) :
            LET entry == results[k][j]
            IN  /\ Len(Seen(entry, dataset).airline_codes) < MaxCodes
                /\ IF entry.shared
                   THEN /\ dataset' =
                             With(dataset, "flights",
                                  JArr([Item(dataset, "flights")[2] EXCEPT
                                          ![entry.record] =
                                              With(@, "airline_codes",
                                                   JArr(Append(Item(@, "airline_codes")[2],
                                                               JStr(<<"B", "A">>))))]))
                        /\ UNCHANGED results
                   ELSE /\ results' = [results EXCEPT ![k][j].flight.airline_codes =
                                                         Append(@, "BA")]
                        /\ UNCHANGED dataset
                /\ UNCHANGED <<loaded, returned>>
                /\ UNCHANGED <<filterVars, utilVars, searchVars>>

NextMock ==
    \/ MockSearch
    \/ SortResult
    \/ SetPrice
    \/ AppendCode

SpecMock == InitMock /\ [][NextMock]_vars

\* =================================================================== claims
\* ---- vocabulary of the claims, stated on the arguments of the last call
AfterFilter == pc = "filtered"

\* a criterion is active when filter_flights was given a value for it; an
\* airline list is a value when it names at least one code
AirlinesActive == ~IsNone(call.airlines) /\ Val(call.airlines) # << >>

PriceActive == ~IsNone(call.max_price)

TimeActive == ~IsNone(call.dep_time_between)

DatesActive == ~IsNone(call.dates)

HasSegments(f) == Len(f.itinerary) >= 1

CodesOf(f) == { f.airline_codes[i] : i \in 1..Len(f.airline_codes) }

FilterCodes == { Upper(Val(call.airlines)[i]) : i \in 1..Len(Val(call.airlines)) }

MeetsAirlines(f) == CodesOf(f) \cap FilterCodes # {}

MeetsPrice(f) == f.price_total <= Val(call.max_price)

MeetsTime(f) ==
    /\ HasSegments(f)
    /\ Val(call.dep_time_between)[1] <= f.itinerary[1].dep_time_local.time
    /\ f.itinerary[1].dep_time_local.time <= Val(call.dep_time_between)[2]

MeetsDates(f) ==
    /\ HasSegments(f)
    /\ IF IsNone(Val(call.dates)[2])
       THEN f.itinerary[1].dep_time_local.date = Val(call.dates)[1]
       ELSE /\ Val(call.dates)[1] <= f.itinerary[1].dep_time_local.date
            /\ f.itinerary[1].dep_time_local.date <= Val(Val(call.dates)[2])

MeetsAllActive(f) ==
    /\ AirlinesActive => MeetsAirlines(f)
    /\ PriceActive => MeetsPrice(f)
    /\ TimeActive => MeetsTime(f)
    /\ DatesActive => MeetsDates(f)

Occurs(f, s) == \E i \in 1..Len(s) : s[i] = f

\* ---- C1
\* C1: filter_flights called with airlines, max_price, dep_time_between and
\* dates all None returns a list equal to its input, flights with an empty
\* itinerary included: same flights, same order, nothing dropped.
C1_IdentityWithoutCriteria ==
    (/\ AfterFilter
     /\ IsNone(call.airlines) /\ IsNone(call.max_price)
     /\ IsNone(call.dep_time_between) /\ IsNone(call.dates))
    => filtered = flights

C1_Witness ==
    /\ AfterFilter
    /\ IsNone(call.airlines) /\ IsNone(call.max_price)
    /\ IsNone(call.dep_time_between) /\ IsNone(call.dates)
    /\ Len(flights) >= 2
    /\ \E i \in 1..Len(flights) : ~HasSegments(flights[i])
    /\ filtered = flights

\* ---- C2
\* the four criteria applied in the order p
ApplyInOrder(p, fs) ==
    LET Step(k, l) ==
            CASE k = 1 -> FilterByAirlines(l, call.airlines)
              [] k = 2 -> FilterByMaxPrice(l, call.max_price)
              [] k = 3 -> FilterByDepTime(l, call.dep_time_between)
              [] OTHER -> FilterByDates(l, call.dates)
    IN  Step(p[4], Step(p[3], Step(p[2], Step(p[1], fs))))

Orders ==
    { p \in [1..4 -> 1..4] : \A i, j \in 1..4 : p[i] = p[j] => i = j }

\* C2: the result of filter_flights is exactly the subsequence of the input,
\* in input order, of the flights that meet every active criterion; applying
\* the criteria in any other order gives the same list, and filtering the
\* result again with the same criteria changes nothing.
C2_ConjunctionOfCriteria ==
    AfterFilter =>
        /\ filtered = SelectSeq(flights, LAMBDA f : MeetsAllActive(f))
        /\ \A p \in Orders : ApplyInOrder(p, flights) = filtered
        /\ filter_flights(filtered, call.airlines, call.max_price,
                          call.dep_time_between, call.dates) = filtered

C2_Witness ==
    /\ AfterFilter
    /\ AirlinesActive /\ PriceActive /\ TimeActive /\ DatesActive
    /\ Len(flights) = 3
    /\ Len(filtered) = 1
    /\ filtered[1] = flights[2]

\* ---- C3
\* C3: with only the price criterion active a flight is kept if and only if
\* price_total <= max_price: a flight priced exactly max_price is kept, a
\* flight priced one unit above is dropped.
C3_PriceInclusive ==
    (AfterFilter /\ PriceActive /\ ~AirlinesActive /\ ~TimeActive /\ ~DatesActive)
    => /\ filtered = SelectSeq(flights, LAMBDA f : f.price_total <= Val(call.max_price))
       /\ \A i \in 1..Len(flights) :
            /\ flights[i].price_total = Val(call.max_price)
                  => Occurs(flights[i], filtered)
            /\ flights[i].price_total = Val(call.max_price) + 1
                  => ~Occurs(flights[i], filtered)

C3_Witness ==
    /\ AfterFilter /\ PriceActive /\ ~AirlinesActive /\ ~TimeActive /\ ~DatesActive
    /\ \E i, j \in 1..Len(flights) :
          /\ flights[i].price_total = Val(call.max_price)
          /\ flights[j].price_total = Val(call.max_price) + 1
          /\ Occurs(flights[i], filtered)
          /\ ~Occurs(flights[j], filtered)

\* ---- C4
IsUpperCase(code) == Upper(code) = code

UpperCaseCodes == { "QR", "EK", "BA" }

OnlyAirlinesUpperCase ==
    /\ AfterFilter /\ AirlinesActive /\ ~PriceActive /\ ~TimeActive /\ ~DatesActive
    /\ \A i \in 1..Len(Val(call.airlines)) : IsUpperCase(Val(call.airlines)[i])
    /\ \A i \in 1..Len(flights) : \A c \in CodesOf(flights[i]) : IsUpperCase(c)

\* C4: with only the airline criterion active and all codes upper-case, a
\* flight is kept if and only if its airline_codes shares at least one code
\* with the filter list (a flight with QR and EK passes the filter EK); any
\* filter list naming the same codes, in any order and with any repetition,
\* gives the same result.
C4_AirlineIntersection ==
    OnlyAirlinesUpperCase =>
        /\ filtered = SelectSeq(flights,
              LAMBDA f : \E c \in CodesOf(f) :
                            \E i \in 1..Len(Val(call.airlines)) :
                                c = Val(call.airlines)[i])
        /\ \A other \in SeqsUpTo(UpperCaseCodes, 3) :
              { other[i] : i \in 1..Len(other) } =
              { Val(call.airlines)[i] : i \in 1..Len(Val(call.airlines)) }
              => FilterByAirlines(flights, Some(other)) = filtered

C4_Witness ==
    /\ OnlyAirlinesUpperCase
    /\ Val(call.airlines) = <<"EK">>
    /\ \E i \in 1..Len(flights) :
          /\ CodesOf(flights[i]) = {"QR", "EK"}
          /\ Occurs(flights[i], filtered)
    /\ \E i \in 1..Len(flights) : ~Occurs(flights[i], filtered)

\* ---- C5
\* C5: with the departure-time window (start, end) active every flight kept
\* has a first segment whose departure time of day t satisfies
\* start <= t <= end; with only the window active exactly those flights are
\* kept (later segments and the date play no part); a window with start > end
\* keeps no flight.
C5_TimeWindowFirstSegment ==
    (AfterFilter /\ TimeActive) =>
        /\ \A i \in 1..Len(filtered) : MeetsTime(filtered[i])
        /\ (~AirlinesActive /\ ~PriceActive /\ ~DatesActive)
              => filtered = SelectSeq(flights, LAMBDA f : MeetsTime(f))
        /\ Val(call.dep_time_between)[1] > Val(call.dep_time_between)[2]
              => filtered = << >>

C5_Witness ==
    /\ AfterFilter /\ TimeActive
    /\ ~AirlinesActive /\ ~PriceActive /\ ~DatesActive
    /\ Val(call.dep_time_between) = <<0, 1>>
    /\ \E i, j \in 1..Len(flights) :
          /\ flights[i].itinerary # << >>
          /\ flights[i].itinerary[1].dep_time_local.time = 1
          /\ Occurs(flights[i], filtered)
          /\ Len(flights[j].itinerary) = 2
          /\ flights[j].itinerary[1].dep_time_local.time = 2
          /\ flights[j].itinerary[2].dep_time_local.time = 0
          /\ ~Occurs(flights[j], filtered)

\* ---- C6
\* C6: with the date criterion active every flight kept has a first segment
\* departing on d when the criterion is (d, None) and on a date within
\* start..end when it is (start, end); with only the date criterion active
\* exactly those flights are kept, so start = end selects one day and
\* start > end selects nothing.
C6_DateOrRange ==
    (AfterFilter /\ DatesActive) =>
        /\ \A i \in 1..Len(filtered) : MeetsDates(filtered[i])
        /\ (~AirlinesActive /\ ~PriceActive /\ ~TimeActive)
              => filtered = SelectSeq(flights, LAMBDA f : MeetsDates(f))
        /\ (/\ ~IsNone(Val(call.dates)[2])
            /\ Val(call.dates)[1] > Val(Val(call.dates)[2]))
              => filtered = << >>

C6_Witness ==
    /\ AfterFilter /\ DatesActive
    /\ ~AirlinesActive /\ ~PriceActive /\ ~TimeActive
    /\ Val(call.dates) = <<1, Some(2)>>
    /\ Len(filtered) = 2
    /\ filtered[1].itinerary[1].dep_time_local.date = 2
    /\ filtered[2].itinerary[1].dep_time_local.date = 1
    /\ Len(flights) = 3

\* ---- C7
\* C7: a flight with an empty itinerary is dropped whenever the time window
\* or the date criterion is active; when neither is active it is retained if
\* and only if it meets the active airline and price criteria.
C7_EmptyItinerary ==
    AfterFilter =>
        /\ (TimeActive \/ DatesActive)
              => \A i \in 1..Len(filtered) : HasSegments(filtered[i])
        /\ (~TimeActive /\ ~DatesActive)
              => SelectSeq(filtered, LAMBDA f : ~HasSegments(f)) =
                 SelectSeq(flights,
                    LAMBDA f : /\ ~HasSegments(f)
                               /\ AirlinesActive => MeetsAirlines(f)
                               /\ PriceActive => MeetsPrice(f))

C7_Witness ==
    /\ AfterFilter
    /\ DatesActive /\ ~TimeActive
    /\ AirlinesActive /\ PriceActive
    /\ \E i \in 1..Len(flights) :
          /\ ~HasSegments(flights[i])
          /\ MeetsAirlines(flights[i])
          /\ MeetsPrice(flights[i])
          /\ ~Occurs(flights[i], filtered)
    /\ filtered # << >>

\* ---- C8
\* C8 as stated: every criterion given a non-null value narrows the result;
\* an airline filter given as an empty list keeps no flight, and
\* max_price = 0 keeps only flights with price_total <= 0.
C8_EveryNonNullCriterionApplied ==
    AfterFilter =>
        /\ (~IsNone(call.airlines) /\ Val(call.airlines) = << >>)
              => filtered = << >>
        /\ call.max_price = Some(0)
              => \A i \in 1..Len(filtered) : filtered[i].price_total <= 0

\* C8 as amended: every criterion given a non-null value is applied, except
\* an airline filter given as an empty list, which is a no-op like None (the
\* result is the flights that meet the other criteria); max_price = 0 keeps
\* only flights with price_total <= 0, and a non-null time window or date
\* criterion is met by every flight kept.
C8_EmptyAirlineListIsNoFilter ==
    AfterFilter =>
        /\ (~IsNone(call.airlines) /\ Val(call.airlines) = << >>)
              => filtered = SelectSeq(flights,
                    LAMBDA f : /\ PriceActive => MeetsPrice(f)
                               /\ TimeActive => MeetsTime(f)
                               /\ DatesActive => MeetsDates(f))
        /\ AirlinesActive
              => \A i \in 1..Len(filtered) : MeetsAirlines(filtered[i])
        /\ ~IsNone(call.max_price)
              => \A i \in 1..Len(filtered) :
                    filtered[i].price_total <= Val(call.max_price)
        /\ ~IsNone(call.dep_time_between)
              => \A i \in 1..Len(filtered) : MeetsTime(filtered[i])
        /\ ~IsNone(call.dates)
              => \A i \in 1..Len(filtered) : MeetsDates(filtered[i])

C8_Witness ==
    /\ AfterFilter
    /\ call.airlines = Some(<< >>)
    /\ call.max_price = Some(0)
    /\ IsNone(call.dep_time_between) /\ IsNone(call.dates)
    /\ Len(flights) = 3
    /\ Len(filtered) = 1
    /\ filtered[1].price_total = 0

\* ---- C9
AfterSort(key) == pc = "displayed" /\ call.sort_by = key

RECURSIVE DurationUpTo(_, _)
DurationUpTo(f, n) ==
    IF n = 0 THEN 0
    ELSE DurationUpTo(f, n - 1) + f.itinerary[n].duration_minutes

TotalDuration(f) == DurationUpTo(f, Len(f.itinerary))

NumericKey(key, f) == IF key = "price" THEN f.price_total ELSE TotalDuration(f)

TimesIn(f, s) == Cardinality({ i \in 1..Len(s) : s[i] = f })

\* C9: the sort by "price" (by "duration") raises nothing and leaves the list
\* a permutation of what it was, ascending by price_total (by the sum of
\* duration_minutes over all segments), with flights of equal key in their
\* order from before the sort; it is the list itself that is reordered.
C9_StableAscendingSort ==
    \A key \in {"price", "duration"} :
        AfterSort(key) =>
            /\ error = "none"
            /\ Len(filtered) = Len(before)
            /\ \A f \in FlightPool : TimesIn(f, filtered) = TimesIn(f, before)
            /\ \A i \in 1..(Len(filtered) - 1) :
                  NumericKey(key, filtered[i]) <= NumericKey(key, filtered[i + 1])
            /\ \A i \in 1..Len(before) :
                  SelectSeq(filtered,
                      LAMBDA f : NumericKey(key, f) = NumericKey(key, before[i]))
                  = SelectSeq(before,
                      LAMBDA f : NumericKey(key, f) = NumericKey(key, before[i]))
            /\ same_list => flights = filtered

C9_Witness ==
    /\ AfterSort("duration")
    /\ Len(before) = 3
    /\ TotalDuration(before[1]) > TotalDuration(before[2])
    /\ TotalDuration(before[2]) = TotalDuration(before[3])
    /\ Len(before[2].itinerary) = 2
    /\ before[2] # before[3]
    /\ filtered = <<before[2], before[3], before[1]>>

\* ---- C10
\* C10: the sort by "departure" of a list holding flights with segments and
\* one flight with no segments raises nothing and yields the list ascending
\* by first-segment departure timestamp, the flight with no segments first.
C10_SegmentlessFlightSortsFirst ==
    (/\ AfterSort("departure")
     /\ Cardinality({ i \in 1..Len(before) : ~HasSegments(before[i]) }) = 1
     /\ \E i \in 1..Len(before) : HasSegments(before[i]))
    => /\ error = "none"
       /\ ~HasSegments(filtered[1])
       /\ \A i \in 2..(Len(filtered) - 1) :
             LET a == filtered[i].itinerary[1].dep_time_local
                 b == filtered[i + 1].itinerary[1].dep_time_local
             IN  a.date < b.date \/ (a.date = b.date /\ a.time <= b.time)

\* ---- C11
AfterCall(name) == fn = name

\* s has the shape HH:MM-HH:MM: two digits, colon, two digits, dash, two
\* digits, colon, two digits
HasWindowShape(s) ==
    /\ Len(s) = 11
    /\ s[3] = ":" /\ s[6] = "-" /\ s[9] = ":"
    /\ \A i \in {1, 2, 4, 5, 7, 8, 10, 11} : IsDigit(s[i])

TwoDigits(s, i) == 10 * DigitValue(s[i]) + DigitValue(s[i + 1])

ValidWindowText(s) ==
    /\ HasWindowShape(s)
    /\ TwoDigits(s, 1) <= 23 /\ TwoDigits(s, 4) <= 59
    /\ TwoDigits(s, 7) <= 23 /\ TwoDigits(s, 10) <= 59

\* C11: for every string "HH:MM-HH:MM" with hours in 0..23 and minutes in
\* 0..59 parse_time_window returns the pair (time(h1, m1), time(h2, m2)),
\* whether or not the start is before the end; for None it returns None.
C11_ValidWindowParsed ==
    AfterCall("parse_time_window") =>
        /\ IsNone(arg) => (ret.raised = "none" /\ IsNone(ret.value))
        /\ (~IsNone(arg) /\ ValidWindowText(Val(arg)))
              => /\ ret.raised = "none"
                 /\ ret.value = Some(<< <<TwoDigits(Val(arg), 1), TwoDigits(Val(arg), 4)>>,
                                        <<TwoDigits(Val(arg), 7), TwoDigits(Val(arg), 10)>> >>)

C11_Witness ==
    /\ AfterCall("parse_time_window")
    /\ ~IsNone(arg)
    /\ ValidWindowText(Val(arg))
    /\ ret.raised = "none"
    /\ ret.value = Some(<< <<23, 59>>, <<6, 0>> >>)

PositionsOf(c, s) == { i \in 1..Len(s) : s[i] = c }

\* s, blanks at its ends apart, is one or more digits; its value
IsNumberText(s) ==
    \E i, j \in 1..Len(s) :
        /\ i <= j
        /\ \A k \in 1..Len(s) : IF k \in i..j THEN IsDigit(s[k]) ELSE s[k] = " "

NumberOf(s) ==
    DigitsValue(SelectSeq(s, LAMBDA c : c # " "))

\* s is "h:m" with h a number text of value at most hmax, m one of value at
\* most 59
IsClockText(s) ==
    /\ Cardinality(PositionsOf(":", s)) = 1
    /\ LET c == CHOOSE i \in PositionsOf(":", s) : TRUE
       IN  /\ IsNumberText(SubSeq(s, 1, c - 1))
           /\ IsNumberText(SubSeq(s, c + 1, Len(s)))
           /\ NumberOf(SubSeq(s, 1, c - 1)) <= 23
           /\ NumberOf(SubSeq(s, c + 1, Len(s))) <= 59

ClockOf(s) ==
    LET c == CHOOSE i \in PositionsOf(":", s) : TRUE
    IN  <<NumberOf(SubSeq(s, 1, c - 1)), NumberOf(SubSeq(s, c + 1, Len(s)))>>

\* s is two clock texts around its only "-"
IsLenientWindowText(s) ==
    /\ Cardinality(PositionsOf("-", s)) = 1
    /\ LET d == CHOOSE i \in PositionsOf("-", s) : TRUE
       IN  /\ IsClockText(SubSeq(s, 1, d - 1))
           /\ IsClockText(SubSeq(s, d + 1, Len(s)))

KnownCodes == { AIRLINE_CODES[i][1] : i \in 1..Len(AIRLINE_CODES) }

\* the token, trimmed and upper-cased
Token(piece) ==
    UpperStr(Strip(piece))

\* the display names, lower-cased, that contain the token case-insensitively,
\* by their place in the table
NamesWith(token) ==
    { i \in 1..Len(AIRLINE_NAMES_TO_CODES) :
        \E k \in 0..Len(AIRLINE_NAMES_TO_CODES[i][1]) :
            /\ k + Len(token) <= Len(AIRLINE_NAMES_TO_CODES[i][1])
            /\ \A j \in 1..Len(token) :
                  AIRLINE_NAMES_TO_CODES[i][1][k + j] = LowerChar(token[j]) }

\* what a token resolves to: itself if it is a known code, else the code of
\* the first display name that contains it, else itself; an empty token
\* matches no code and no name
Resolved(piece) ==
    LET token == Token(piece)
    IN  IF token \in KnownCodes THEN token
        ELSE IF token # << >> /\ NamesWith(token) # {}
        THEN AIRLINE_NAMES_TO_CODES[
                 CHOOSE i \in NamesWith(token) : \A j \in NamesWith(token) : i <= j][2]
        ELSE token

\* C14: normalize_airline_codes returns None for None and for the empty
\* string; otherwise one code per comma-separated token, in token order: the
\* trimmed, upper-cased token if it is a known code, else the code of the
\* first display name containing it, else the token itself.  A token that
\* matches no code and no name, an empty token from a trailing or doubled
\* comma included, is kept as it is and never replaced by an airline code.
C14_TokensResolvedInOrder ==
    AfterCall("normalize_airline_codes") =>
        /\ (IsNone(arg) \/ arg = Some(<< >>)) => IsNone(ret)
        /\ \A ts \in SeqsUpTo(AirlineTokens, MaxTokens) \ { << >>, << << >> >> } :
              arg = Some(Join(ts, ","))
              => ret = Some([i \in 1..Len(ts) |-> Resolved(ts[i])])

\* ---- C15
\* the number a text of digits without a needless leading zero stands for,
\* -1 for any other text
Decimal(s) ==
    IF /\ s # << >>
       /\ \A i \in 1..Len(s) : IsDigit(s[i])
       /\ (Len(s) > 1 => s[1] # "0")
    THEN DigitsValue(s)
    ELSE -1

\* C15: for every integer minutes >= 0 format_duration renders "{h}h {m}m"
\* with 0 <= m < 60 and 60*h + m = minutes; 0 gives "0h 0m" and 665 gives
\* "11h 5m".
C15_HoursAndMinutes ==
    AfterCall("format_duration") =>
        /\ \E b \in 1..Len(ret) :
              /\ ret[b] = " "
              /\ b >= 3 /\ b + 2 <= Len(ret)
              /\ ret[b - 1] = "h" /\ ret[Len(ret)] = "m"
              /\ LET h == Decimal(SubSeq(ret, 1, b - 2))
                     m == Decimal(SubSeq(ret, b + 1, Len(ret) - 1))
                 IN  /\ h >= 0
                     /\ m >= 0 /\ m < 60
                     /\ 60 * h + m = arg
        /\ arg = 0 => ret = <<"0", "h", " ", "0", "m">>
        /\ arg = 665 => ret = <<"1", "1", "h", " ", "5", "m">>

C15_Witness ==
    /\ AfterCall("format_duration")
    /\ arg = 665
    /\ ret = <<"1", "1", "h", " ", "5", "m">>

\* ---- C16
\* C16: for an itinerary of n >= 1 segments format_stops returns "non-stop"
\* when n = 1, "1 stop" when n = 2 and "{n-1} stops" when n >= 3.
C16_StopsText ==
    (AfterCall("format_stops") /\ Len(arg) >= 1) =>
        /\ Len(arg) = 1 => ret = <<"n", "o", "n", "-", "s", "t", "o", "p">>
        /\ Len(arg) = 2 => ret = <<"1", " ", "s", "t", "o", "p">>
        /\ Len(arg) >= 3
              => /\ Len(ret) > 6
                 /\ SubSeq(ret, Len(ret) - 5, Len(ret)) = <<" ", "s", "t", "o", "p", "s">>
                 /\ Decimal(SubSeq(ret, 1, Len(ret) - 6)) = Len(arg) - 1

C16_Witness ==
    /\ AfterCall("format_stops")
    /\ Len(arg) = 4
    /\ ret = <<"3", " ", "s", "t", "o", "p", "s">>

\* ---- C13
\* ParseDates has run: the command goes on with the dates, or has ended there
AfterParseDates ==
    \/ at = "parse_filters"
    \/ at = "exit" /\ echo = <<"ERROR: Invalid date format">>

\* the dates of the calendar in the years of the texts
CalendarDates ==
    { d \in {2024, 2025} \X (1..12) \X (1..31) :
        \/ d[3] <= 28
        \/ d[3] = 29 /\ (d[2] # 2 \/ d[1] = 2024)
        \/ d[3] = 30 /\ d[2] # 2
        \/ d[3] = 31 /\ d[2] \in {1, 3, 5, 7, 8, 10, 12} }

Pad2(n) == IF n < 10 THEN <<"0">> \o IntToStr(n) ELSE IntToStr(n)

\* the ISO text of a date, YYYY-MM-DD
IsoText(d) == IntToStr(d[1]) \o <<"-">> \o Pad2(d[2]) \o <<"-">> \o Pad2(d[3])

\* the texts strptime reads as a date: the month and the day with or without
\* the leading zero, the day also with a blank in its place
DateTexts(d) ==
    { IntToStr(d[1]) \o <<"-">> \o m \o <<"-">> \o dd :
        m \in { IntToStr(d[2]), Pad2(d[2]) },
        dd \in { IntToStr(d[3]), Pad2(d[3]),
                 IF d[3] < 10 THEN <<" ">> \o IntToStr(d[3]) ELSE Pad2(d[3]) } }

IsIsoText(text) == \E d \in CalendarDates : IsoText(d) = text

IsoDate(text) == CHOOSE d \in CalendarDates : IsoText(d) = text

IsDateText(text) == \E d \in CalendarDates : text \in DateTexts(d)

DateOf(text) == CHOOSE d \in CalendarDates : text \in DateTexts(d)

\* the text before and after the colon at i
Before(text, i) == SubSeq(text, 1, i - 1)

After(text, i) == SubSeq(text, i + 1, Len(text))

\* the command stopped in ParseDates with a non-zero status
DateAbort ==
    /\ at = "exit"
    /\ ~IsNone(exit_code) /\ Val(exit_code) # 0
    /\ local.dates = None

\* C13 (as stated): parse_date_range returns (d, None) for a single ISO date
\* and (d1, d2) for two ISO dates joined by one colon; for every other text
\* it fails and the search command ends with a non-zero status.
C13_OnlyIsoDatesParsed ==
    AfterParseDates =>
        LET colons == PositionsOf(":", DateInput)
        IN  IF colons = {} /\ IsIsoText(DateInput)
            THEN local.dates = Some(<<IsoDate(DateInput), None>>)
            ELSE IF /\ Cardinality(colons) = 1
                    /\ \A i \in colons : /\ IsIsoText(Before(DateInput, i))
                                         /\ IsIsoText(After(DateInput, i))
            THEN \A i \in colons :
                    local.dates = Some(<<IsoDate(Before(DateInput, i)),
                                         Some(IsoDate(After(DateInput, i)))>>)
            ELSE DateAbort

\* C13 (amended): parse_date_range returns (d, None) for a single date text
\* and (d1, d2) for two date texts joined by one colon, where a date text is
\* year-month-day of a calendar date with a four-digit year and the month and
\* day with or without the leading zero; for every other text it fails and
\* the search command ends with a non-zero status.
C13_DateTextsParsedOthersAbort ==
    AfterParseDates =>
        LET colons == PositionsOf(":", DateInput)
        IN  IF colons = {} /\ IsDateText(DateInput)
            THEN /\ local.dates = Some(<<DateOf(DateInput), None>>)
                 /\ at = "parse_filters"
            ELSE IF /\ Cardinality(colons) = 1
                    /\ \A i \in colons : /\ IsDateText(Before(DateInput, i))
                                         /\ IsDateText(After(DateInput, i))
            THEN /\ \A i \in colons :
                       local.dates = Some(<<DateOf(Before(DateInput, i)),
                                            Some(DateOf(After(DateInput, i)))>>)
                 /\ at = "parse_filters"
            ELSE DateAbort

C13_Witness ==
    /\ AfterParseDates
    /\ argv.date_range = Some(<<"2", "0", "2", "5", "-", "1", "-", "5", ":", "2", "0", "2", "5", "-", "1", "2", "-", "1", "0">>)
    /\ local.dates = Some(<< <<2025, 1, 5>>, Some(<<2025, 12, 10>>) >>)

\* ---- C17
\* get_provider has returned
AfterGetProvider == local.provider.class # "none"

\* the configured name: PROVIDER in capitals, MOCK when it is not set
ConfiguredName ==
    IF environ.PROVIDER = None THEN <<"M", "O", "C", "K">> ELSE UpperStr(Val(environ.PROVIDER))

KeyPresent(key) == key # None /\ key # Some(<< >>)

\* the live provider the name and its own key select, "none" if there is none
NamedLiveProvider ==
    IF ConfiguredName = <<"K", "I", "W", "I">> /\ KeyPresent(environ.KIWI_API_KEY)
    THEN "KiwiProvider"
    ELSE IF ConfiguredName = <<"A", "M", "A", "D", "E", "U", "S">> /\ KeyPresent(environ.AMADEUS_API_KEY)
    THEN "AmadeusProvider"
    ELSE IF ConfiguredName = <<"S", "K", "Y", "S", "C", "A", "N", "N", "E", "R">> /\ KeyPresent(environ.SKYSCANNER_API_KEY)
    THEN "SkyscannerProvider"
    ELSE "none"

Warned == \E i \in 1..Len(echo) : echo[i] = "WARNING: No API key found"

\* C17: for every provider name and every combination of keys get_provider
\* returns a provider: the named live provider when that provider's own key
\* is present, the Mock provider otherwise; the warning is echoed exactly
\* when the name is not MOCK and Mock is returned.
C17_ProviderOrMockWithWarning ==
    /\ at \in {"search_flights", "filter_flights"} => AfterGetProvider
    /\ AfterGetProvider =>
          /\ local.provider.class =
                (IF NamedLiveProvider # "none" THEN NamedLiveProvider
                 ELSE "MockProvider")
          /\ Warned <=> (ConfiguredName # <<"M", "O", "C", "K">>
                           /\ local.provider.class = "MockProvider")

C17_Witness ==
    /\ AfterGetProvider
    /\ environ.PROVIDER = Some(<<"K", "I", "W", "I">>)
    /\ environ.KIWI_API_KEY = Some(<< >>)
    /\ environ.AMADEUS_API_KEY = Some(<<"a">>)
    /\ local.provider.class = "MockProvider"
    /\ Warned

\* ---- C18
\* search_flights has been called
AfterSearchFlights ==
    \/ at = "filter_flights"
    \/ at = "exit" /\ AfterGetProvider

\* an unimplemented variant is selected and its key is present
StubSelected ==
    \/ ConfiguredName = <<"A", "M", "A", "D", "E", "U", "S">> /\ KeyPresent(environ.AMADEUS_API_KEY)
    \/ ConfiguredName = <<"S", "K", "Y", "S", "C", "A", "N", "N", "E", "R">> /\ KeyPresent(environ.SKYSCANNER_API_KEY)

\* C18 (as stated): with an unimplemented variant selected and its key
\* present, the search falls back to the Mock provider with a warning and
\* is not aborted.
C18_StubFallsBackToMock ==
    (AfterSearchFlights /\ StubSelected) =>
        /\ local.provider.class = "MockProvider"
        /\ Warned
        /\ error # "NotImplementedError"
        /\ exit_code # Some(1)

\* C18 (amended): with an unimplemented variant (AMADEUS or SKYSCANNER)
\* selected and its key present, get_provider returns that variant without a
\* warning, its search_flights raises NotImplementedError, and the search
\* command reports the error and ends with status 1 and no flights; the Mock
\* provider is not used.
C18_StubAbortsSearch ==
    (AfterGetProvider /\ StubSelected) =>
        /\ local.provider.class \in {"AmadeusProvider", "SkyscannerProvider"}
        /\ ~Warned
        /\ AfterSearchFlights =>
              /\ at = "exit"
              /\ error = "NotImplementedError"
              /\ exit_code = Some(1)
              /\ echo[Len(echo)] = "ERROR: Error searching flights"
              /\ flights = << >>

C18_Witness ==
    /\ AfterSearchFlights
    /\ environ.PROVIDER = Some(<<"A", "M", "A", "D", "E", "U", "S">>)
    /\ local.provider.class = "AmadeusProvider"
    /\ error = "NotImplementedError"
    /\ exit_code = Some(1)

\* ---- C19
\* the fields search_flights reads from a record and from a segment
MockRecordFields == {"price_total", "currency", "airline_codes"}

MockSegmentFields ==
    {"from_airport", "to_airport", "dep_time_local", "arr_time_local",
     "duration_minutes", "flight_number", "airline_code"}

KeysOf(d) == { d[2][i][1] : i \in 1..Len(d[2]) }

\* a record that lacks an expected field, of its own or of a segment
MissingField(record) ==
    /\ record[1] = "object"
    /\ \/ ~(MockRecordFields \subseteq KeysOf(record))
       \/ /\ "itinerary" \in KeysOf(record)
          /\ Item(record, "itinerary")[1] = "array"
          /\ \E i \in 1..Len(Item(record, "itinerary")[2]) :
                /\ Item(record, "itinerary")[2][i][1] = "object"
                /\ ~(MockSegmentFields \subseteq KeysOf(Item(record, "itinerary")[2][i]))

\* the top level is not an object with a list of flight records
NoRecordList(json) ==
    \/ json[1] # "object"
    \/ "flights" \notin KeysOf(json)
    \/ Item(json, "flights")[1] # "array"
    \/ \E i \in 1..Len(Item(json, "flights")[2]) :
          Item(json, "flights")[2][i][1] # "object"

MalformedStructure(json) ==
    \/ NoRecordList(json)
    \/ \E i \in 1..Len(Item(json, "flights")[2]) :
          MissingField(Item(json, "flights")[2][i])

\* C19: with the dataset file missing, not valid JSON, or valid JSON of a
\* malformed structure (top level not an object with a list of flight
\* records, or a record missing an expected field), the Mock provider is
\* constructed and search_flights returns an empty list without raising.
C19_BadDatasetGivesNoFlights ==
    (/\ AfterCall("MockProvider.search_flights")
     /\ \/ arg.state \in {"missing", "invalid"}
        \/ MalformedStructure(arg.json))
    => /\ ret.raised = "none"
       /\ ret.value = << >>

\* ---- C20
\* the whole records of a response and the Flight each of them stands for
WholeKiwiRecords == { KiwiFlightData, KiwiFlightData2 }

FlightOf(record) ==
    IF record = KiwiFlightData
    THEN [price_total |-> 1, airline_codes |-> <<"QR">>,
          itinerary |-> <<[dep_time_local |-> Aware(1, 1),
                           duration_minutes |-> 2, airline_code |-> "QR"]>>]
    ELSE [price_total |-> 2, airline_codes |-> <<"EK">>,
          itinerary |-> <<[dep_time_local |-> Aware(1, 0),
                           duration_minutes |-> 3, airline_code |-> "EK"]>>]

RECURSIVE FlightsOf(_)
\* one Flight for each whole record, in the order of the batch
FlightsOf(records) ==
    IF records = << >> THEN << >>
    ELSE IF Head(records) \in WholeKiwiRecords
    THEN <<FlightOf(Head(records))>> \o FlightsOf(Tail(records))
    ELSE FlightsOf(Tail(records))

\* C20: for every batch of records _parse_flights returns, in batch order,
\* one Flight for each well-formed record and nothing for a record that is
\* missing an expected field or has a field of the wrong type; it never
\* raises.
C20_MalformedRecordsSkipped ==
    (/\ AfterCall("KiwiProvider._parse_flights")
     /\ arg[1] = "object"
     /\ "data" \in KeysOf(arg)
     /\ Item(arg, "data")[1] = "array")
    => /\ ret.raised = "none"
       /\ ret.value = FlightsOf(Item(arg, "data")[2])

\* ---- C21: failure of a live provider's search
\* the request of the Kiwi provider failed: no response, a status that is not
\* 2xx, or a body that cannot be parsed (not JSON, not an object, a "data"
\* that is no list of objects)
RequestFailed(response) ==
    \/ response.outcome # "json"
    \/ response.json[1] # "object"
    \/ /\ Has(response.json, "data")
       /\ \/ Item(response.json, "data")[1] \in {"null", "number"}
          \/ /\ Item(response.json, "data")[1] = "array"
             /\ \E i \in 1..Len(Item(response.json, "data")[2]) :
                   Item(response.json, "data")[2][i][1] # "object"

LiveSearchFailed ==
    /\ call.op = "search_flights"
    /\ local.provider.class = "KiwiProvider"
    /\ RequestFailed(call.response)

ErrorReported ==
    echo # << >> /\ echo[Len(echo)] = "ERROR: Error searching flights"

\* C21 (as stated): when the search of a live provider fails, the error is
\* reported, the attempt yields no results, and the process is not aborted.
C21_LiveFailureYieldsNoResults ==
    LiveSearchFailed =>
        /\ ErrorReported
        /\ flights = << >> /\ filtered = << >>
        /\ exit_code # Some(1)

\* C21 (amended): when the search of a live provider fails in the search
\* command, the error is reported, no flight is fetched or displayed, and the
\* command ends there with status 1.
C21_LiveFailureEndsCommand ==
    LiveSearchFailed =>
        /\ ErrorReported
        /\ flights = << >> /\ filtered = << >>
        /\ at = "exit" /\ exit_code = Some(1)

C21_Witness ==
    /\ LiveSearchFailed
    /\ call.response.outcome = "json"
    /\ exit_code = Some(1)

\* ---- C22: exactly one of --date and --date-range
AfterValidate == at # "validate"

\* the option is on the command line
Given(option) == option # None

\* the option is on the command line with a value that is not empty
Supplied(option) == option # None /\ option # Some(<< >>)

\* the command ended in "Validate inputs"
InputRefused ==
    /\ at = "exit"
    /\ exit_code # None /\ exit_code # Some(0)
    /\ echo \in { <<"ERROR: Please specify either --date or --date-range">>,
                  <<"ERROR: Please specify either --date or --date-range, not both">> }

\* C22 (as stated): the command is refused with a non-zero status when both
\* or neither of --date and --date-range are given, and the check passes when
\* exactly one is given.
C22_ExactlyOneGiven ==
    AfterValidate =>
        (InputRefused <=> (Given(argv.date) <=> Given(argv.date_range)))

\* C22 (amended): the same, an option counting as given only when its value
\* is not the empty string; the message names the case.
C22_ExactlyOneSupplied ==
    AfterValidate =>
        /\ InputRefused <=> (Supplied(argv.date) <=> Supplied(argv.date_range))
        /\ InputRefused =>
              (echo[1] = "ERROR: Please specify either --date or --date-range, not both"
                  <=> Supplied(argv.date))

C22_Witness ==
    /\ InputRefused
    /\ Supplied(argv.date) /\ Supplied(argv.date_range)

\* ---- C23: the duration of a segment
\* the calls that build FlightSegments, one for each provider path
ProviderCalls ==
    { "MockProvider.search_flights", "KiwiProvider._parse_flights",
      "fetch_live_offers_amadeus" }

\* C23: every FlightSegment a provider path produces has duration_minutes
\* >= 0, also when the duration is derived from the two timestamps and the
\* arrival is not later than the departure.
C23_DurationNeverNegative ==
    (fn \in ProviderCalls /\ ret.raised = "none") =>
        \A i \in 1..Len(ret.value) :
            \A j \in 1..Len(ret.value[i].itinerary) :
                ret.value[i].itinerary[j].duration_minutes >= 0

\* ---- C24: the airline codes of a Flight
\* the airline codes of the segments of an itinerary
SegmentCodes(itinerary) ==
    { itinerary[i].airline_code : i \in 1..Len(itinerary) }

NoDuplicates(list) ==
    \A i, j \in 1..Len(list) : list[i] = list[j] => i = j

\* C24: a Flight constructed with no airline codes and with segments holds
\* each distinct airline code of its segments once; one constructed with
\* airline codes keeps them; one with neither has none.
C24_CodesDerivedFromSegments ==
    AfterCall("Flight") =>
        /\ (arg.airline_codes = << >> /\ arg.itinerary # << >>) =>
              /\ Elements(ret.airline_codes) = SegmentCodes(arg.itinerary)
              /\ NoDuplicates(ret.airline_codes)
        /\ arg.airline_codes # << >> => ret.airline_codes = arg.airline_codes
        /\ (arg.airline_codes = << >> /\ arg.itinerary = << >>) =>
              ret.airline_codes = << >>
        /\ ret.itinerary = arg.itinerary

C24_Witness ==
    /\ AfterCall("Flight")
    /\ arg.airline_codes = << >>
    /\ Cardinality(SegmentCodes(arg.itinerary)) = 2
    /\ Len(arg.itinerary) = 3
    /\ ret.airline_codes = <<"QR", "EK">>

\* ---- C25: the duration of an Amadeus segment
\* a number followed by the letter of its unit, or nothing
IsUnitPart(part, letter) ==
    \/ part = << >>
    \/ /\ Len(part) >= 2
       /\ part[Len(part)] = letter
       /\ \A i \in 1..(Len(part) - 1) : IsDigit(part[i])

UnitNumber(part) ==
    IF part = << >> THEN 0 ELSE DigitsValue(SubSeq(part, 1, Len(part) - 1))

\* the places where a text "PT..." divides into an hours part and a minutes
\* part, each of which may be absent
DurationSplits(text) ==
    IF Len(text) < 2 \/ SubSeq(text, 1, 2) # <<"P", "T">> THEN {}
    ELSE { i \in 2..Len(text) :
             /\ IsUnitPart(SubSeq(text, 3, i), "H")
             /\ IsUnitPart(SubSeq(text, i + 1, Len(text)), "M") }

\* 60 * H + M of a text of that form, 0 for any other text
MinutesOfText(text) ==
    IF DurationSplits(text) = {} THEN 0
    ELSE LET i == CHOOSE j \in DurationSplits(text) : TRUE
         IN  60 * UnitNumber(SubSeq(text, 3, i))
                 + UnitNumber(SubSeq(text, i + 1, Len(text)))

RECURSIVE SegmentsOfItineraries(_)
\* the segments of the itineraries of an offer, one after the other
SegmentsOfItineraries(itineraries) ==
    IF itineraries = << >> THEN << >>
    ELSE Get(Head(itineraries), "segments", JArr(<< >>))[2]
             \o SegmentsOfItineraries(Tail(itineraries))

SegmentsOfOffer(offer) ==
    SegmentsOfItineraries(Get(offer, "itineraries", JArr(<< >>))[2])

\* the instant a timestamp text names, in seconds
InstantOf(text) ==
    86400 * DayNumber(<<DigitsValue(SubSeq(text, 1, 4)),
                        DigitsValue(SubSeq(text, 6, 7)),
                        DigitsValue(SubSeq(text, 9, 10))>>)
        + 3600 * DigitsValue(SubSeq(text, 12, 13))
        + 60 * DigitsValue(SubSeq(text, 15, 16))
        + DigitsValue(SubSeq(text, 18, 19))

\* arrival minus departure of a segment of an offer, in whole minutes
MinutesInTheAir(seg) ==
    (InstantOf(Item(Item(seg, "arrival"), "at")[2])
        - InstantOf(Item(Item(seg, "departure"), "at")[2])) \div 60

\* the duration the offer gives for a segment, 0 if it gives none
MinutesGiven(seg) ==
    IF Has(seg, "duration") THEN MinutesOfText(Item(seg, "duration")[2]) ELSE 0

\* C25: the duration parser returns 60*H + M for "PT{H}H{M}M", 60*H for
\* "PT{H}H", M for "PT{M}M" and 0 for "PT" and for any other text; a segment
\* whose parsed duration is 0 or absent gets arrival minus departure in whole
\* minutes as its duration_minutes, any other segment its parsed duration.
C25_DurationParsedOrDerived ==
    /\ AfterCall("_iso8601_duration_to_minutes") =>
          /\ ret.raised = "none"
          /\ ret.value = MinutesOfText(arg)
          /\ \A i \in DurationSplits(arg) :
                ret.value = 60 * UnitNumber(SubSeq(arg, 3, i))
                                + UnitNumber(SubSeq(arg, i + 1, Len(arg)))
    /\ (AfterCall("fetch_live_offers_amadeus") /\ ret.raised = "none") =>
          \A i \in 1..Len(ret.value) :
              LET segs == SegmentsOfOffer(arg.data[2][i])
              IN  /\ Len(ret.value[i].itinerary) = Len(segs)
                  /\ \A k \in 1..Len(segs) :
                        ret.value[i].itinerary[k].duration_minutes
                            = IF MinutesGiven(segs[k]) = 0
                              THEN MinutesInTheAir(segs[k])
                              ELSE MinutesGiven(segs[k])

C25_Witness ==
    /\ AfterCall("fetch_live_offers_amadeus")
    /\ Len(ret.value) = 1
    /\ Len(ret.value[1].itinerary) = 3
    /\ MinutesGiven(SegmentsOfOffer(arg.data[2][1])[2]) = 0
    /\ ret.value[1].itinerary[2].duration_minutes = -1
    /\ ~Has(SegmentsOfOffer(arg.data[2][1])[3], "duration")
    /\ ret.value[1].itinerary[3].duration_minutes = 2

\* ---- C26: the Mock provider between calls
\* C26: once the Mock provider is constructed, its dataset stays as loaded
\* and every call of search_flights returns the same flights in the same
\* order, whatever is done to the lists and Flights of earlier calls.
C26_CallsAreIndependent ==
    /\ dataset = loaded
    /\ \A k \in 1..Len(returned) : returned[k] = MockProvider_search_flights(loaded)

\* ---- C27: what filter_flights and the sort leave alone
\* the two lists hold the same Flights, each as many times
SameFlights(a, b) ==
    /\ Len(a) = Len(b)
    /\ \A i \in 1..Len(a) : TimesIn(a[i], a) = TimesIn(a[i], b)

RECURSIVE IsSubList(_, _)
\* a holds some of the elements of b, in the order of b
IsSubList(a, b) ==
    IF a = << >> THEN TRUE
    ELSE IF b = << >> THEN FALSE
    ELSE IF Head(a) = Head(b) THEN IsSubList(Tail(a), Tail(b))
    ELSE IsSubList(a, Tail(b))

\* C27: filter_flights leaves its input list as it is and returns Flights of
\* that list, unchanged and in their order; the sort leaves the list it is
\* given with the same Flights, unchanged, whatever their order, and no other
\* list changes.
C27_OnlyTheOrderChanges ==
    [][/\ (pc = "fetched" /\ pc' = "filtered") =>
             /\ flights' = flights
             /\ IsSubList(filtered', flights)
       /\ (pc = "filtered" /\ pc' = "displayed") =>
             /\ SameFlights(filtered', filtered)
             /\ flights' = IF same_list THEN filtered' ELSE flights]_vars

C27_Witness ==
    /\ pc = "displayed"
    /\ ~same_list
    /\ Len(filtered) = 2 /\ Len(flights) = 3
    /\ filtered # before
    /\ filtered[1] = flights[3]

\* ---- C28: validation before the provider
\* the messages of the three input checks
InputErrors ==
    { "ERROR: Please specify either --date or --date-range",
      "ERROR: Please specify either --date or --date-range, not both",
      "ERROR: Invalid date format",
      "ERROR: Invalid time window format" }

\* one of the input checks failed
InputCheckFailed == \E i \in 1..Len(echo) : echo[i] \in InputErrors

\* a provider was selected, or its search_flights was called
ProviderUsed ==
    \/ local.provider # NoProvider
    \/ call.op = "search_flights"
    \/ \E i \in 1..Len(echo) : echo[i] \in {"Searching flights", "WARNING: No API key found"}

\* C28: when the date/date-range check, the date parsing or the time-window
\* parsing fails, the command ends with a non-zero status, no provider is
\* selected and search_flights is not called; a provider is used only after
\* the three checks passed.
C28_ValidationBeforeProvider ==
    /\ InputCheckFailed =>
          /\ at = "exit"
          /\ exit_code # None /\ exit_code # Some(0)
          /\ ~ProviderUsed
          /\ flights = << >>
    /\ ProviderUsed =>
          /\ Supplied(argv.date) # Supplied(argv.date_range)
          /\ parse_date_range(DateInput).raised = "none"
          /\ local.dates = Some(parse_date_range(DateInput).value)
          /\ at \notin {"validate", "parse_dates", "parse_filters"}

C28_Witness ==
    /\ at = "exit"
    /\ echo = <<"ERROR: Invalid time window format">>
    /\ local.dates # None
    /\ local.provider = NoProvider
    /\ exit_code = Some(1)

\* ---- C29: the flights the search command displays
\* display_flights was called
AfterDisplay == at = "exit" /\ call.op = "display_flights"

\* C29: every flight the search command hands to display_flights has at
\* least one segment, whatever the provider returned and whatever the
\* options, so the sort there raises nothing and the command ends with
\* status 0.
C29_DisplayedFlightsHaveSegments ==
    AfterDisplay =>
        /\ \A i \in 1..Len(filtered) : HasSegments(filtered[i])
        /\ error = "none"
        /\ exit_code = Some(0)

C29_Witness ==
    /\ AfterDisplay
    /\ call.sort_by = "departure"
    /\ IsNone(local.time_window)
    /\ \E i \in 1..Len(flights) : ~HasSegments(flights[i])
    /\ Len(filtered) = 1

\* ---- C30: the list filter_flights returns
\* a criterion of the call is active
SomeCriterionActive == AirlinesActive \/ PriceActive \/ TimeActive \/ DatesActive

\* C30: with a criterion active filter_flights returns a list of its own and
\* the sort of the result leaves the input list in its order; with none it
\* returns the input list, and the sort of the result is a sort of the input
\* list.
C30_ResultSharedOnlyWithoutCriteria ==
    [][/\ (pc = "fetched" /\ pc' = "filtered") =>
             (same_list' <=> ~SomeCriterionActive')
       /\ (pc = "filtered" /\ pc' = "displayed" /\ SomeCriterionActive) =>
             flights' = flights
       /\ (pc = "filtered" /\ pc' = "displayed" /\ ~SomeCriterionActive) =>
             /\ filtered = flights
             /\ flights' = filtered']_vars

C30_Witness ==
    /\ pc = "displayed"
    /\ same_list
    /\ flights = filtered
    /\ flights # before
    /\ Len(flights) = 3

==========================================================================
